---- MODULE Spec2Model ----
(***************************************************************************)
(* The authoring pipeline of tlef-web-server (routes/create): folders,     *)
(* materials, quizzes, learning objectives, generation plans and           *)
(* questions, as stored documents, and the request handlers that change    *)
(* them.  One action is one request handled from start to finish.          *)
(***************************************************************************)
EXTENDS Integers, Sequences, FiniteSets, TLC

(* ---------------------------------------------------------------- bounds *)
\* Documents of each collection created in one run.
MaxFolders == 2
MaxMaterials == 2
MaxQuizzes == 2
MaxObjectives == 3
MaxPlans == 2
MaxQuestions == 6
\* Generation attempts recorded per quiz.
MaxHistory == 1
\* Objectives (questions) created one at a time by the single-creation requests.
MaxManual == 2
\* Questions created where the whole life of a quiz is explored.
MaxLifecycleQuestions == 1
\* Folders where one folder holds all there is.
MaxSingle == 1
\* Materials where quizzes use them.
MaxAssignable == 1
\* Text-material requests between their duplicate check and their save.
MaxPending == 2
\* Quizzes, and plans, where one plan is followed from generation to use.
MaxScenario == 1
\* Requests that have passed their checks and not yet written all they write.
MaxInflight == 2
\* Edits recorded per objective and per question.
MaxEdits == 2
\* Updates of one plan's breakdown.
MaxModifications == 2

(* ------------------------------------------------------------- constants *)
HTTP_OK == 200
HTTP_CREATED == 201
HTTP_BAD_REQUEST == 400
HTTP_UNAUTHORIZED == 401
HTTP_NOT_FOUND == 404
HTTP_CONFLICT == 409
HTTP_INTERNAL_SERVER_ERROR == 500
HTTP_SERVICE_UNAVAILABLE == 503

QUIZ_STATUS ==
  {"draft", "materials-assigned", "objectives-set", "plan-generated",
   "plan-approved", "generating", "generated", "reviewing", "completed"}

REVIEW_STATUS == {"pending", "approved", "needs-review", "rejected"}

PLAN_STATUS == {"draft", "approved", "modified", "used"}

PEDAGOGICAL_APPROACHES == {"support", "assess", "gamify", "custom"}

\* A path of a document that was never set reads as undefined; ids are >= 1.
Undefined == 0
Null == -1
\* The number that is not one: the quotient 0 / 0.
NaN == -2

\* The number of objectives the placeholder generation step returns.
GeneratedObjectiveCount == 3

(* ---------------------------------------------------------------- inputs *)
Users == {"u1", "u2"}
\* The users that create folders; the others only address what is not theirs.
Instructors == {"u1"}
FolderNames == {"CS101"}
QuizNames == {"Quiz 1"}
Contents == {"c1"}
\* Texts of objective updates; "" is a body without text.
TextInputs == {"", "t1", " t2 "}
\* Bodies of question updates: no field, the text, content and answer, and
\* the text together with a field that is not one a question update may set.
EmptyBody == [field \in {} |-> ""]
UpdateInputs ==
  {EmptyBody, [questionText |-> "t2"], [content |-> "c2", correctAnswer |-> "a2"],
   [questionText |-> "t2", createdBy |-> "u2"]}
\* Names of the folder requests, with and without blanks around them.
FolderNameInputs == {"CS101", " CS101 ", "CS102"}
\* Names of the rename requests: none (""), with blanks around, without.
FolderRenameInputs == {"", " CS101 ", "CS102"}
QuizRenameInputs == {"", " Quiz 2 "}
\* Review statuses of the requests: the four of REVIEW_STATUS and one that is
\* none of them.
ReviewInputs == {"pending", "approved", "needs-review", "rejected", "done"}
Urls == {"https://a.example/"}
OrderInputs == {Undefined, 1}
ApproachInputs == {"support", "assess"}
PerLOInputs == {1}
ScenarioPerLOInputs == {1, 3}

VARIABLES
  folders,     \* folder id -> Folder document
  materials,   \* material id -> Material document
  quizzes,     \* quiz id -> Quiz document
  objectives,  \* objective id -> LearningObjective document
  plans,       \* plan id -> GenerationPlan document
  questions,   \* question id -> Question document
  nextId,      \* the next unused id of each collection (ids are never reused)
  last,        \* the last request and its response
  pending,     \* the text-material requests between their duplicate check and
               \* their save, in the order they passed the check
  inflight,    \* the requests that have passed their checks and not yet
               \* written all they write, each with what it read
  users,       \* user id -> User document
  sessions,    \* the user ids with a session in Redis
  tokens       \* the tokens issued so far, each with whether a logout of
               \* its user has completed since it was issued

vars ==
  <<folders, materials, quizzes, objectives, plans, questions, nextId, last, pending,
    inflight, users, sessions, tokens>>
auth == <<users, sessions, tokens>>
db == <<folders, materials, quizzes, objectives, plans, questions>>

(* --------------------------------------------------------------- helpers *)
Remove(f, k) == [i \in DOMAIN f \ {k} |-> f[i]]
Put(f, k, v) == [i \in DOMAIN f \cup {k} |-> IF i = k THEN v ELSE f[i]]
RemoveAll(f, ks) == [i \in DOMAIN f \ ks |-> f[i]]
Range(s) == {s[i] : i \in DOMAIN s}
SeqsUpTo(S, n) == UNION {[1..k -> S] : k \in 0..n}

\* The ids a request can name: every id handed out so far and one that was not.
Ids(kind) == 1..nextId[kind]

\* The id lists a request can carry: no longer than the ids handed out, or a
\* single id that names nothing.
IdLists(kind) == SeqsUpTo(1..(nextId[kind] - 1), nextId[kind] - 1) \cup {<<nextId[kind]>>}

Max(kind) ==
  [folder |-> MaxFolders, material |-> MaxMaterials, quiz |-> MaxQuizzes,
   objective |-> MaxObjectives, plan |-> MaxPlans, question |-> MaxQuestions][kind]

\* Fewer than MaxManual documents of a collection were created so far.
Manual(kind) == nextId[kind] <= MaxManual

\* There is room for n more documents of a collection.
Room(kind, n) == nextId[kind] - 1 + n <= Max(kind)

RECURSIVE SetToSortedSeq(_, _)
\* The elements of S as a sequence, ascending by key[_] and then by id.
SetToSortedSeq(S, key) ==
  IF S = {} THEN <<>>
  ELSE LET m == CHOOSE x \in S : \A y \in S :
                  key[x] < key[y] \/ (key[x] = key[y] /\ x <= y)
       IN <<m>> \o SetToSortedSeq(S \ {m}, key)

Response(op, id, res, ids) == [op |-> op, id |-> id, res |-> res, ids |-> ids]

\* text.trim() for the texts and names of the requests
trim(text) ==
  CASE text = " t2 " -> "t2"
    [] text = " CS101 " -> "CS101"
    [] text = " Quiz 2 " -> "Quiz 2"
    [] OTHER -> text

\* A request that is answered without any write.
Reject(op, id, res) ==
  /\ last' = Response(op, IF res = HTTP_NOT_FOUND THEN Undefined ELSE id, res, <<>>)
  /\ UNCHANGED <<auth, inflight, pending, db, nextId>>

(* ------------------------------------------------------------ Quiz model *)
DefaultProgress ==
  [materialsAssigned |-> FALSE, objectivesSet |-> FALSE, planGenerated |-> FALSE,
   planApproved |-> FALSE, questionsGenerated |-> FALSE, reviewCompleted |-> FALSE]

\* The five flags as the code computes them from a quiz document.
ComputedProgress(q) ==
  [q.progress EXCEPT
     !.materialsAssigned = Cardinality(q.materials) > 0,
     !.objectivesSet = Cardinality(q.learningObjectives) > 0,
     !.planGenerated = Cardinality(q.generationPlans) > 0,
     !.planApproved = q.activePlan # Null,
     !.questionsGenerated = Cardinality(q.questions) > 0]

\* pre('save'): recompute the flags when one of the five paths was modified.
QuizPreSave(q, modified) ==
  IF modified THEN [q EXCEPT !.progress = ComputedProgress(q)] ELSE q

\* new Quiz({...}): the schema defaults; the caller sets the paths it names.
NewQuizDoc(name, folder, user) ==
  [name |-> name, folder |-> folder, createdBy |-> user,
   materials |-> {}, learningObjectives |-> {}, questions |-> {},
   generationPlans |-> {}, activePlan |-> Undefined,
   progress |-> DefaultProgress, status |-> "draft", generationHistory |-> <<>>]

\* updateProgress: the flags, then the status of the highest flag set (the
\* status is left as it is when no flag is set), then save.
updateProgress(q) ==
  LET p == ComputedProgress(q)
      s == IF p.questionsGenerated THEN "completed"
           ELSE IF p.planApproved THEN "plan-approved"
           ELSE IF p.planGenerated THEN "plan-generated"
           ELSE IF p.objectivesSet THEN "objectives-set"
           ELSE IF p.materialsAssigned THEN "materials-assigned"
           ELSE q.status
  IN QuizPreSave([q EXCEPT !.progress = p, !.status = s], TRUE)

addGenerationRecord(q, rec) ==
  [q EXCEPT !.generationHistory = Append(@, rec)]

addGenerationPlan(q, planId) ==
  IF planId \notin q.generationPlans
  THEN updateProgress([q EXCEPT !.generationPlans = @ \cup {planId}])
  ELSE q

\* Faulty variant of setActivePlan: a plan that is already active stays active.
setActivePlanOnce(q, planId) ==
  IF q.activePlan \in {Undefined, Null}
  THEN updateProgress([q EXCEPT !.activePlan = planId])
  ELSE updateProgress(q)

setActivePlan(q, planId) == updateProgress([q EXCEPT !.activePlan = planId])

addLearningObjective(q, objectiveId) ==
  IF objectiveId \notin q.learningObjectives
  THEN updateProgress([q EXCEPT !.learningObjectives = @ \cup {objectiveId}])
  ELSE q

removeLearningObjective(q, objectiveId) ==
  updateProgress([q EXCEPT !.learningObjectives = @ \ {objectiveId}])

addQuestion(q, questionId) ==
  IF questionId \notin q.questions
  THEN updateProgress([q EXCEPT !.questions = @ \cup {questionId}])
  ELSE q

removeQuestion(q, questionId) ==
  updateProgress([q EXCEPT !.questions = @ \ {questionId}])

(* ---------------------------------------------------------- Folder model *)
NewFolderDoc(name, user) ==
  [name |-> name, instructor |-> user, materials |-> {}, quizzes |-> {}]

folderAddQuiz(f, quizId) == [f EXCEPT !.quizzes = @ \cup {quizId}]
\* Faulty variant of removeQuiz: the folder keeps listing the quiz.
folderKeepQuiz(f, quizId) == f
folderRemoveQuiz(f, quizId) == [f EXCEPT !.quizzes = @ \ {quizId}]
folderAddMaterial(f, materialId) == [f EXCEPT !.materials = @ \cup {materialId}]
folderRemoveMaterial(f, materialId) == [f EXCEPT !.materials = @ \ {materialId}]

(* ------------------------------------------------------------------ Init *)
Init ==
  /\ folders = <<>>
  /\ materials = <<>>
  /\ quizzes = <<>>
  /\ objectives = <<>>
  /\ plans = <<>>
  /\ questions = <<>>
  /\ nextId = [folder |-> 1, material |-> 1, quiz |-> 1, objective |-> 1,
               plan |-> 1, question |-> 1]
  /\ last = Response("init", Undefined, HTTP_OK, <<>>)
  /\ pending = <<>>
  /\ inflight = <<>>
  /\ users = <<>>
  /\ sessions = {}
  /\ tokens = {}

(* ------------------------------------------------------- folder handlers *)
\* POST /api/folders
createFolder(u, name) ==
  /\ Room("folder", 1)
  /\ IF \E f \in DOMAIN folders :
          folders[f].instructor = u /\ folders[f].name = trim(name)
     THEN Reject("createFolder", Undefined, HTTP_CONFLICT)
     ELSE LET id == nextId.folder IN
          /\ folders' = Put(folders, id, NewFolderDoc(trim(name), u))
          /\ nextId' = [nextId EXCEPT !.folder = id + 1]
          /\ last' = Response("createFolder", id, HTTP_CREATED, <<>>)
          /\ UNCHANGED <<auth, inflight, pending, materials, quizzes, objectives, plans, questions>>

\* Faulty variant of the folder update: the name is set without a lookup.
updateFolderUnchecked(u, f, name) ==
  IF ~(f \in DOMAIN folders /\ folders[f].instructor = u)
  THEN Reject("updateFolder", f, HTTP_NOT_FOUND)
  ELSE /\ folders' = IF name # ""
                     THEN [folders EXCEPT ![f].name = trim(name)]
                     ELSE folders
       /\ last' = Response("updateFolder", f, HTTP_OK, <<>>)
       /\ UNCHANGED <<auth, inflight, pending, materials, quizzes, objectives, plans, questions, nextId>>

\* PUT /api/folders/:id  (name = "" when the body gives none)
updateFolder(u, f, name) ==
  IF ~(f \in DOMAIN folders /\ folders[f].instructor = u)
  THEN Reject("updateFolder", f, HTTP_NOT_FOUND)
  ELSE IF name # "" /\ trim(name) # folders[f].name
  THEN IF \E g \in DOMAIN folders :
            folders[g].instructor = u /\ folders[g].name = trim(name) /\ g # f
       THEN Reject("updateFolder", f, HTTP_CONFLICT)
       ELSE /\ folders' = [folders EXCEPT ![f].name = trim(name)]
            /\ last' = Response("updateFolder", f, HTTP_OK, <<>>)
            /\ UNCHANGED <<auth, inflight, pending, materials, quizzes, objectives, plans, questions, nextId>>
  ELSE /\ last' = Response("updateFolder", f, HTTP_OK, <<>>)
       /\ UNCHANGED <<auth, inflight, pending, db, nextId>>

\* DELETE /api/folders/:id
deleteFolder(u, f) ==
  IF ~(f \in DOMAIN folders /\ folders[f].instructor = u)
  THEN Reject("deleteFolder", f, HTTP_NOT_FOUND)
  ELSE IF Cardinality(folders[f].materials) > 0 \/ Cardinality(folders[f].quizzes) > 0
  THEN Reject("deleteFolder", f, HTTP_BAD_REQUEST)
  ELSE /\ folders' = Remove(folders, f)
       /\ last' = Response("deleteFolder", f, HTTP_OK, <<>>)
       /\ UNCHANGED <<auth, inflight, pending, materials, quizzes, objectives, plans, questions, nextId>>

(* ----------------------------------------------------- material handlers *)
\* crypto.createHash('md5').update(content).digest('hex')
md5(content) == <<"md5", content>>

\* A text material: available at once; it has a checksum and no url.
NewTextMaterial(f, u, checksum) ==
  [folder |-> f, uploadedBy |-> u, checksum |-> checksum, url |-> "",
   processingStatus |-> "completed", processingError |-> <<>>,
   qdrantDocumentId |-> ""]

\* POST /api/materials/text, no other request in between
createTextMaterial(u, f, content) ==
  /\ Room("material", 1)
  /\ IF ~(f \in DOMAIN folders /\ folders[f].instructor = u)
     THEN Reject("createMaterial", f, HTTP_NOT_FOUND)
     ELSE IF \E m \in DOMAIN materials :
               materials[m].checksum = md5(content) /\ materials[m].folder = f
     THEN Reject("createMaterial", f, HTTP_CONFLICT)
     ELSE LET id == nextId.material IN
          /\ materials' = Put(materials, id,
               NewTextMaterial(f, u, md5(content)))
          /\ folders' = [folders EXCEPT ![f] = folderAddMaterial(@, id)]
          /\ nextId' = [nextId EXCEPT !.material = id + 1]
          /\ last' = Response("createMaterial", id, HTTP_CREATED, <<>>)
          /\ UNCHANGED <<auth, inflight, pending, quizzes, objectives, plans, questions>>

\* POST /api/materials/text up to its duplicate check: the request that
\* passes the check has not saved its material yet.
findTextMaterial(u, f, content) ==
  IF ~(f \in DOMAIN folders /\ folders[f].instructor = u)
  THEN Reject("createMaterial", f, HTTP_NOT_FOUND)
  ELSE IF \E m \in DOMAIN materials :
            materials[m].checksum = md5(content) /\ materials[m].folder = f
  THEN Reject("createMaterial", f, HTTP_CONFLICT)
  ELSE /\ Len(pending) < MaxPending
       /\ pending' = Append(pending,
            [folder |-> f, uploadedBy |-> u, checksum |-> md5(content)])
       /\ last' = Response("findMaterial", f, HTTP_OK, <<>>)
       /\ UNCHANGED <<auth, inflight, db, nextId>>

\* POST /api/materials/text from its save on, for the i-th request that
\* passed the duplicate check.
saveTextMaterial(i) ==
  /\ i \in DOMAIN pending
  /\ Room("material", 1)
  /\ LET id == nextId.material
         f == pending[i].folder
     IN /\ materials' = Put(materials, id,
             NewTextMaterial(f, pending[i].uploadedBy, pending[i].checksum))
        /\ folders' = IF f \in DOMAIN folders
                      THEN [folders EXCEPT ![f] = folderAddMaterial(@, id)]
                      ELSE folders
        /\ nextId' = [nextId EXCEPT !.material = id + 1]
        /\ pending' = [j \in 1..(Len(pending) - 1) |->
                         IF j < i THEN pending[j] ELSE pending[j + 1]]
        /\ last' = Response("createMaterial", id, HTTP_CREATED, <<>>)
        /\ UNCHANGED <<auth, inflight, quizzes, objectives, plans, questions>>

\* POST /api/materials/url
createUrlMaterial(u, f, url) ==
  /\ Room("material", 1)
  /\ IF ~(f \in DOMAIN folders /\ folders[f].instructor = u)
     THEN Reject("createMaterial", f, HTTP_NOT_FOUND)
     ELSE IF \E m \in DOMAIN materials :
               materials[m].url = url /\ materials[m].folder = f
     THEN Reject("createMaterial", f, HTTP_CONFLICT)
     ELSE LET id == nextId.material IN
          /\ materials' = Put(materials, id,
               [folder |-> f, uploadedBy |-> u, checksum |-> <<>>, url |-> url,
                processingStatus |-> "pending", processingError |-> <<>>,
                qdrantDocumentId |-> ""])
          /\ folders' = [folders EXCEPT ![f] = folderAddMaterial(@, id)]
          /\ nextId' = [nextId EXCEPT !.material = id + 1]
          /\ last' = Response("createMaterial", id, HTTP_CREATED, <<>>)
          /\ UNCHANGED <<auth, inflight, pending, quizzes, objectives, plans, questions>>

\* The error detail of a material: none, or one error message.
NoError == <<>>
ErrorInputs == {"parse error"}

\* Faulty variant of updateProcessingStatus: the error detail is left alone.
updateProcessingStatusOnly(material, status, error) ==
  [material EXCEPT !.processingStatus = status]

\* materialSchema.methods.updateProcessingStatus; error is NoError (null) or
\* one message.
updateProcessingStatus(material, status, error) ==
  [material EXCEPT !.processingStatus = status,
                   !.processingError = IF error # NoError THEN error ELSE NoError]

\* materialSchema.methods.markAsProcessing, called by the processing job
markAsProcessing(m) ==
  /\ m \in DOMAIN materials
  /\ materials' = [materials EXCEPT ![m] =
       [@ EXCEPT !.processingStatus = "processing", !.processingError = NoError]]
  /\ last' = Response("markAsProcessing", m, HTTP_OK, <<>>)
  /\ UNCHANGED <<auth, inflight, pending, folders, quizzes, objectives, plans, questions, nextId>>

\* materialSchema.methods.markAsCompleted, called by the processing job
markAsCompleted(m) ==
  /\ m \in DOMAIN materials
  /\ materials' = [materials EXCEPT ![m] =
       [@ EXCEPT !.processingStatus = "completed", !.processingError = NoError]]
  /\ last' = Response("markAsCompleted", m, HTTP_OK, <<>>)
  /\ UNCHANGED <<auth, inflight, pending, folders, quizzes, objectives, plans, questions, nextId>>

\* materialSchema.methods.markAsFailed, called by the processing job
markAsFailed(m, error) ==
  /\ m \in DOMAIN materials
  /\ materials' = [materials EXCEPT ![m] =
       [@ EXCEPT !.processingStatus = "failed", !.processingError = <<error>>]]
  /\ last' = Response("markAsFailed", m, HTTP_OK, <<>>)
  /\ UNCHANGED <<auth, inflight, pending, folders, quizzes, objectives, plans, questions, nextId>>

\* POST /api/materials/:id/reprocess
reprocessMaterial(u, m) ==
  IF ~(m \in DOMAIN materials /\ materials[m].uploadedBy = u)
  THEN Reject("reprocessMaterial", m, HTTP_NOT_FOUND)
  ELSE /\ materials' = [materials EXCEPT
            ![m] = updateProcessingStatus(@, "pending", NoError)]
       /\ last' = [op |-> "reprocessMaterial", id |-> m, res |-> HTTP_OK, ids |-> <<>>,
                   found |-> materials[m].processingStatus]
       /\ UNCHANGED <<auth, inflight, pending, folders, quizzes, objectives, plans, questions, nextId>>

\* DELETE /api/materials/:id
deleteMaterial(u, m) ==
  IF ~(m \in DOMAIN materials /\ materials[m].uploadedBy = u)
  THEN Reject("deleteMaterial", m, HTTP_NOT_FOUND)
  ELSE LET f == materials[m].folder IN
       /\ folders' = IF f \in DOMAIN folders
                     THEN [folders EXCEPT ![f] = folderRemoveMaterial(@, m)]
                     ELSE folders
       /\ materials' = Remove(materials, m)
       /\ last' = Response("deleteMaterial", m, HTTP_OK, <<>>)
       /\ UNCHANGED <<auth, inflight, pending, quizzes, objectives, plans, questions, nextId>>

(* --------------------------------------------------------- quiz handlers *)
\* Faulty variant of the quiz creation: the quiz is saved before the name is
\* looked up, so a request answered with a conflict has written.
createQuizSaveFirst(u, f, name) ==
  /\ Room("quiz", 1)
  /\ IF ~(f \in DOMAIN folders /\ folders[f].instructor = u)
     THEN Reject("createQuiz", f, HTTP_NOT_FOUND)
     ELSE LET id == nextId.quiz IN
          /\ quizzes' = Put(quizzes, id, QuizPreSave(NewQuizDoc(name, f, u), FALSE))
          /\ nextId' = [nextId EXCEPT !.quiz = id + 1]
          /\ IF \E q \in DOMAIN quizzes : quizzes[q].folder = f /\ quizzes[q].name = name
             THEN /\ last' = Response("createQuiz", f, HTTP_CONFLICT, <<>>)
                  /\ UNCHANGED folders
             ELSE /\ folders' = [folders EXCEPT ![f] = folderAddQuiz(@, id)]
                  /\ last' = Response("createQuiz", id, HTTP_CREATED, <<>>)
          /\ UNCHANGED <<auth, inflight, pending, materials, objectives, plans, questions>>

\* POST /api/quizzes
createQuiz(u, f, name) ==
  /\ Room("quiz", 1)
  /\ IF ~(f \in DOMAIN folders /\ folders[f].instructor = u)
     THEN Reject("createQuiz", f, HTTP_NOT_FOUND)
     ELSE IF \E q \in DOMAIN quizzes : quizzes[q].folder = f /\ quizzes[q].name = name
     THEN Reject("createQuiz", f, HTTP_CONFLICT)
     ELSE LET id == nextId.quiz IN
          /\ quizzes' = Put(quizzes, id, QuizPreSave(NewQuizDoc(name, f, u), FALSE))
          /\ folders' = [folders EXCEPT ![f] = folderAddQuiz(@, id)]
          /\ nextId' = [nextId EXCEPT !.quiz = id + 1]
          /\ last' = Response("createQuiz", id, HTTP_CREATED, <<>>)
          /\ UNCHANGED <<auth, inflight, pending, materials, objectives, plans, questions>>

\* PUT /api/quizzes/:id  (name = "" when the body gives none)
updateQuiz(u, q, name) ==
  IF ~(q \in DOMAIN quizzes /\ quizzes[q].createdBy = u)
  THEN Reject("updateQuiz", q, HTTP_NOT_FOUND)
  ELSE IF name # "" /\ trim(name) # quizzes[q].name
          /\ \E x \in DOMAIN quizzes :
               /\ quizzes[x].folder = quizzes[q].folder
               /\ quizzes[x].name = trim(name)
               /\ x # q
  THEN Reject("updateQuiz", q, HTTP_CONFLICT)
  ELSE /\ quizzes' = IF name # ""
                     THEN [quizzes EXCEPT ![q] = QuizPreSave([@ EXCEPT !.name = trim(name)], FALSE)]
                     ELSE quizzes
       /\ last' = Response("updateQuiz", q, HTTP_OK, <<>>)
       /\ UNCHANGED <<auth, inflight, pending, folders, materials, objectives, plans, questions, nextId>>

\* DELETE /api/quizzes/:id
deleteQuiz(u, q) ==
  IF ~(q \in DOMAIN quizzes /\ quizzes[q].createdBy = u)
  THEN Reject("deleteQuiz", q, HTTP_NOT_FOUND)
  ELSE LET f == quizzes[q].folder IN
       /\ folders' = IF f \in DOMAIN folders
                     THEN [folders EXCEPT ![f] = folderRemoveQuiz(@, q)]
                     ELSE folders
       /\ objectives' = RemoveAll(objectives,
                          {o \in DOMAIN objectives : objectives[o].quiz = q})
       /\ questions' = RemoveAll(questions,
                          {x \in DOMAIN questions : questions[x].quiz = q})
       /\ plans' = RemoveAll(plans, {p \in DOMAIN plans : plans[p].quiz = q})
       /\ quizzes' = Remove(quizzes, q)
       /\ last' = Response("deleteQuiz", q, HTTP_OK, <<>>)
       /\ UNCHANGED <<auth, inflight, pending, materials, nextId>>

\* PUT /api/quizzes/:id/materials
assignMaterials(u, q, materialIds) ==
  IF ~(q \in DOMAIN quizzes /\ quizzes[q].createdBy = u)
  THEN Reject("assignMaterials", q, HTTP_NOT_FOUND)
  ELSE LET found == {m \in Range(materialIds) :
                       m \in DOMAIN materials /\ materials[m].folder = quizzes[q].folder}
       IN IF Cardinality(found) # Len(materialIds)
          THEN Reject("assignMaterials", q, HTTP_BAD_REQUEST)
          ELSE /\ quizzes' = [quizzes EXCEPT
                    ![q] = updateProgress([@ EXCEPT !.materials = Range(materialIds)])]
               /\ last' = Response("assignMaterials", q, HTTP_OK, materialIds)
               /\ UNCHANGED <<auth, inflight, pending, folders, materials, objectives, plans, questions, nextId>>

\* POST /api/quizzes/:id/duplicate  (name = "" when the body gives none)
duplicateQuiz(u, q, name) ==
  /\ Room("quiz", 1)
  /\ IF ~(q \in DOMAIN quizzes /\ quizzes[q].createdBy = u)
     THEN Reject("duplicateQuiz", q, HTTP_NOT_FOUND)
     ELSE LET orig == quizzes[q]
              newName == IF name # "" THEN name ELSE orig.name \o " (Copy)"
              id == nextId.quiz
          IN IF \E x \in DOMAIN quizzes :
                  quizzes[x].folder = orig.folder /\ quizzes[x].name = newName
             THEN Reject("duplicateQuiz", q, HTTP_CONFLICT)
             ELSE /\ quizzes' = Put(quizzes, id,
                       QuizPreSave([NewQuizDoc(newName, orig.folder, u)
                                      EXCEPT !.materials = orig.materials], TRUE))
                  /\ folders' = IF orig.folder \in DOMAIN folders
                                THEN [folders EXCEPT ![orig.folder] = folderAddQuiz(@, id)]
                                ELSE folders
                  /\ nextId' = [nextId EXCEPT !.quiz = id + 1]
                  /\ last' = Response("duplicateQuiz", id, HTTP_CREATED, <<>>)
                  /\ UNCHANGED <<auth, inflight, pending, materials, objectives, plans, questions>>

(* ---------------------------------------------------- objective handlers *)
\* order || 0
OrZero(order) == IF order = Undefined THEN 0 ELSE order

NewObjectiveDoc(q, order, user) ==
  [quiz |-> q, order |-> order, createdBy |-> user,
   text |-> "t1", editHistory |-> <<>>]

\* POST /api/objectives  (single creation)
createObjective(u, q, order) ==
  /\ Room("objective", 1)
  /\ IF ~(q \in DOMAIN quizzes /\ quizzes[q].createdBy = u)
     THEN Reject("createObjective", q, HTTP_NOT_FOUND)
     ELSE LET id == nextId.objective IN
          /\ objectives' = Put(objectives, id, NewObjectiveDoc(q, OrZero(order), u))
          /\ quizzes' = [quizzes EXCEPT ![q] = addLearningObjective(@, id)]
          /\ nextId' = [nextId EXCEPT !.objective = id + 1]
          /\ last' = Response("createObjective", id, HTTP_CREATED, <<>>)
          /\ UNCHANGED <<auth, inflight, pending, folders, materials, plans, questions>>

RECURSIVE addLearningObjectives(_, _)
\* quiz.addLearningObjective for each id of a sequence, in order.
addLearningObjectives(q, ids) ==
  IF ids = <<>> THEN q
  ELSE addLearningObjectives(addLearningObjective(q, Head(ids)), Tail(ids))

\* POST /api/objectives/generate  (GeneratedObjectiveCount objectives at once:
\* enabled only where MaxObjectives leaves room for them)
generateObjectives(u, q, materialIds) ==
  /\ Room("objective", GeneratedObjectiveCount)
  /\ IF Len(materialIds) < 1
     THEN Reject("generateObjectives", q, HTTP_BAD_REQUEST)
     ELSE IF ~(q \in DOMAIN quizzes /\ quizzes[q].createdBy = u)
     THEN Reject("generateObjectives", q, HTTP_NOT_FOUND)
     ELSE LET found == {m \in Range(materialIds) :
                          m \in DOMAIN materials /\ materials[m].folder = quizzes[q].folder}
              first == nextId.objective
              new == [i \in 1..GeneratedObjectiveCount |-> first + i - 1]
          IN IF Cardinality(found) # Len(materialIds)
             THEN Reject("generateObjectives", q, HTTP_BAD_REQUEST)
             ELSE IF \E m \in found : materials[m].processingStatus # "completed"
             THEN Reject("generateObjectives", q, HTTP_BAD_REQUEST)
             ELSE /\ objectives' =
                       [o \in DOMAIN objectives \cup Range(new) |->
                          IF o \in Range(new)
                          THEN NewObjectiveDoc(q, o - first, u)
                          ELSE objectives[o]]
                  /\ quizzes' = [quizzes EXCEPT ![q] = addLearningObjectives(@, new)]
                  /\ nextId' = [nextId EXCEPT !.objective = first + GeneratedObjectiveCount]
                  /\ last' = Response("generateObjectives", q, HTTP_CREATED, new)
                  /\ UNCHANGED <<auth, inflight, pending, folders, materials, plans, questions>>

\* Faulty variant of updateText: the text changes and no entry is written.
updateTextUnlogged(objective, newText, userId) ==
  [objective EXCEPT !.text = newText]

\* learningObjectiveSchema.methods.updateText, before its save
updateText(objective, newText, userId) ==
  [objective EXCEPT
     !.text = newText,
     !.editHistory = Append(@, [editedBy |-> userId, changes |-> "Text updated",
                                previousText |-> objective.text])]

\* learningObjectiveSchema.methods.reorder, before its save
reorder(objective, newOrder) == [objective EXCEPT !.order = newOrder]

\* PUT /api/objectives/:id; the text "" and the order Undefined stand for a
\* body without that field.
updateObjective(u, o, text, order) ==
  IF ~(o \in DOMAIN objectives /\ objectives[o].createdBy = u)
  THEN Reject("updateObjective", o, HTTP_NOT_FOUND)
  ELSE LET objective == objectives[o]
           withText == IF text # "" /\ trim(text) # objective.text
                       THEN updateText(objective, trim(text), u)
                       ELSE objective
           withOrder == IF order # Undefined /\ order # withText.order
                        THEN reorder(withText, order)
                        ELSE withText
       IN /\ Len(withOrder.editHistory) <= MaxEdits
          /\ objectives' = [objectives EXCEPT ![o] = withOrder]
          /\ last' = Response("updateObjective", o, HTTP_OK, <<>>)
          /\ UNCHANGED <<auth, inflight, pending, folders, materials, quizzes, plans, questions, nextId>>

\* DELETE /api/objectives/:id
deleteObjective(u, o) ==
  IF ~(o \in DOMAIN objectives /\ objectives[o].createdBy = u)
  THEN Reject("deleteObjective", o, HTTP_NOT_FOUND)
  ELSE LET q == objectives[o].quiz IN
       /\ quizzes' = IF q \in DOMAIN quizzes
                     THEN [quizzes EXCEPT ![q] = removeLearningObjective(@, o)]
                     ELSE quizzes
       /\ questions' = RemoveAll(questions,
                         {x \in DOMAIN questions : questions[x].learningObjective = o})
       /\ objectives' = Remove(objectives, o)
       /\ last' = Response("deleteObjective", o, HTTP_OK, <<>>)
       /\ UNCHANGED <<auth, inflight, pending, folders, materials, plans, nextId>>

\* statics.reorderObjectives / reorderQuestions: findByIdAndUpdate(id, {order: index})
\* for every position of orderedIds (a later position wins for a repeated id).
reorderDocs(docs, orderedIds) ==
  [d \in DOMAIN docs |->
     IF d \in Range(orderedIds)
     THEN [docs[d] EXCEPT !.order =
             (CHOOSE i \in DOMAIN orderedIds :
                /\ orderedIds[i] = d
                /\ \A j \in DOMAIN orderedIds : orderedIds[j] = d => j <= i) - 1]
     ELSE docs[d]]

\* PUT /api/objectives/reorder
reorderObjectives(u, q, objectiveIds) ==
  IF ~(q \in DOMAIN quizzes /\ quizzes[q].createdBy = u)
  THEN Reject("reorderObjectives", q, HTTP_NOT_FOUND)
  ELSE LET found == {o \in Range(objectiveIds) :
                       /\ o \in DOMAIN objectives
                       /\ objectives[o].quiz = q
                       /\ objectives[o].createdBy = u}
       IN IF Cardinality(found) # Len(objectiveIds)
          THEN Reject("reorderObjectives", q, HTTP_BAD_REQUEST)
          ELSE /\ objectives' = reorderDocs(objectives, objectiveIds)
               /\ last' = Response("reorderObjectives", q, HTTP_OK, objectiveIds)
               /\ UNCHANGED <<auth, inflight, pending, folders, materials, quizzes, plans, questions, nextId>>

(* --------------------------------------------------------- plan handlers *)
\* getQuestionTypeDistribution: the percentage table of an approach, in the
\* order of its keys.
getQuestionTypeDistribution(approach) ==
  CASE approach = "assess" ->
         << <<"multiple-choice", 50>>, <<"true-false", 20>>,
            <<"discussion", 20>>, <<"summary", 10>> >>
    [] approach = "gamify" ->
         << <<"matching", 30>>, <<"ordering", 25>>,
            <<"multiple-choice", 25>>, <<"flashcard", 20>> >>
    [] approach = "custom" ->
         << <<"multiple-choice", 35>>, <<"true-false", 15>>, <<"flashcard", 15>>,
            <<"discussion", 15>>, <<"summary", 10>>, <<"matching", 10>> >>
    [] OTHER ->
         << <<"multiple-choice", 40>>, <<"true-false", 20>>,
            <<"flashcard", 30>>, <<"summary", 10>> >>

\* Faulty variant of the rounding: the share is cut off, not rounded.
TruncatePercent(percentage, total) == (percentage * total) \div 100

\* Math.round((percentage / 100) * total), halves rounding up.
RoundPercent(percentage, total) == (percentage * total + 50) \div 100

RECURSIVE SelectTypes(_, _)
\* The question types of one objective: the types whose count is above zero.
SelectTypes(table, perLO) ==
  IF table = <<>> THEN <<>>
  ELSE LET count == RoundPercent(Head(table)[2], perLO)
           rest == SelectTypes(Tail(table), perLO)
       IN IF count > 0
          THEN <<[type |-> Head(table)[1], count |-> count]>> \o rest
          ELSE rest

RECURSIVE FlatTypes(_)
\* The questionTypes entries of a breakdown, in the order the loops visit them.
FlatTypes(breakdown) ==
  IF breakdown = <<>> THEN <<>>
  ELSE Head(breakdown).questionTypes \o FlatTypes(Tail(breakdown))

RECURSIVE SumCounts(_)
SumCounts(questionTypes) ==
  IF questionTypes = <<>> THEN 0
  ELSE Head(questionTypes).count + SumCounts(Tail(questionTypes))

RECURSIVE TypeOrder(_, _)
\* The keys of typeCount in insertion order: each type at its first occurrence.
TypeOrder(questionTypes, seen) ==
  IF questionTypes = <<>> THEN <<>>
  ELSE IF Head(questionTypes).type \in seen
  THEN TypeOrder(Tail(questionTypes), seen)
  ELSE <<Head(questionTypes).type>>
       \o TypeOrder(Tail(questionTypes), seen \cup {Head(questionTypes).type})

\* The pairs (count, total), of the totals below 80, whose quotient, rounded
\* to a double and then multiplied by 100, falls just below the half that
\* 100 * count / total is: (23 / 40) * 100 is 57.49999999999999.
RoundsBelowHalf == {<<23, 40>>}

\* Math.round((count / total) * 100) in double arithmetic; 0 / 0 is NaN.
Percentage(count, total) ==
  IF total = 0 THEN NaN
  ELSE IF <<count, total>> \in RoundsBelowHalf
  THEN (200 * count + total) \div (2 * total) - 1
  ELSE (200 * count + total) \div (2 * total)

\* The distribution summary: per type the count over all objectives and its
\* share of total.
Distribution(breakdown, total) ==
  LET flat == FlatTypes(breakdown)
      types == TypeOrder(flat, {})
      typeCount(t) == SumCounts(SelectSeq(flat, LAMBDA qt : qt.type = t))
  IN [i \in DOMAIN types |->
        [type |-> types[i], totalCount |-> typeCount(types[i]),
         percentage |-> Percentage(typeCount(types[i]), total)]]

\* LearningObjective.find({quiz}).sort({order: 1})
ObjectivesOf(q) ==
  SetToSortedSeq({o \in DOMAIN objectives : objectives[o].quiz = q},
                 [o \in DOMAIN objectives |-> objectives[o].order])

PlanBreakdown(objs, approach, perLO) ==
  [i \in DOMAIN objs |->
     [learningObjective |-> objs[i],
      questionTypes |-> SelectTypes(getQuestionTypeDistribution(approach), perLO)]]

\* POST /api/plans/generate
generatePlan(u, q, approach, perLO) ==
  /\ Room("plan", 1)
  /\ IF ~(q \in DOMAIN quizzes /\ quizzes[q].createdBy = u)
     THEN Reject("generatePlan", q, HTTP_NOT_FOUND)
     ELSE IF Len(ObjectivesOf(q)) = 0
     THEN Reject("generatePlan", q, HTTP_BAD_REQUEST)
     ELSE LET id == nextId.plan
              objs == ObjectivesOf(q)
              breakdown == PlanBreakdown(objs, approach, perLO)
              totalQuestions == Len(objs) * perLO
          IN /\ plans' = Put(plans, id,
                  [quiz |-> q, createdBy |-> u, approach |-> approach,
                   questionsPerLO |-> perLO,
                   totalQuestions |-> totalQuestions,
                   breakdown |-> breakdown,
                   distribution |-> Distribution(breakdown, totalQuestions),
                   modifications |-> <<>>,
                   status |-> "draft"])
             /\ quizzes' = [quizzes EXCEPT ![q] = addGenerationPlan(@, id)]
             /\ nextId' = [nextId EXCEPT !.plan = id + 1]
             /\ last' = Response("generatePlan", id, HTTP_CREATED, <<>>)
             /\ UNCHANGED <<auth, inflight, pending, folders, materials, objectives, questions>>

\* generationPlanSchema.methods.approve
approve(plan) == [plan EXCEPT !.status = "approved"]

\* Faulty variant of markAsUsed: the plan stays approved.
markAsStillApproved(plan) == [plan EXCEPT !.status = "approved"]

\* generationPlanSchema.methods.markAsUsed
markAsUsed(plan) == [plan EXCEPT !.status = "used"]

\* A value of a request body: a number, or a string of len decimal digits
\* that reads as the number val.
JsNum(n) == [str |-> FALSE, val |-> n, len |-> 0]
JsStr(n, len) == [str |-> TRUE, val |-> n, len |-> len]

RECURSIVE DecimalLength(_)
\* The length of String(n).
DecimalLength(n) == IF n < 10 THEN 1 ELSE 1 + DecimalLength(n \div 10)

RECURSIVE Pow10(_)
Pow10(k) == IF k = 0 THEN 1 ELSE 10 * Pow10(k - 1)

\* a + b: the sum of two numbers, the concatenation when either is a string.
JsAdd(a, b) ==
  IF ~a.str /\ ~b.str THEN JsNum(a.val + b.val)
  ELSE LET la == IF a.str THEN a.len ELSE DecimalLength(a.val)
           lb == IF b.str THEN b.len ELSE DecimalLength(b.val)
       IN JsStr(a.val * Pow10(lb) + b.val, la + lb)

\* The cast of a Number path: Number(value).
castNumber(x) == x.val

\* Counts of a request body: the numbers 0 and 1 and the string "2".
CountInputs == {JsNum(0), JsNum(1), JsStr(2, 1)}
TypeInputs == {"multiple-choice", "true-false"}
\* Breakdowns of a request body: none or one objective, up to two types.
BreakdownInputs ==
  {<<>>} \cup
  {<<[learningObjective |-> lo, questionTypes |-> qts]>> :
     lo \in DOMAIN objectives,
     qts \in SeqsUpTo([type : TypeInputs, count : CountInputs], 2)}

\* The cast of the breakdown path: every count becomes a number.
castBreakdown(newBreakdown) ==
  [i \in DOMAIN newBreakdown |->
     [learningObjective |-> newBreakdown[i].learningObjective,
      questionTypes |->
        [j \in DOMAIN newBreakdown[i].questionTypes |->
           [type |-> newBreakdown[i].questionTypes[j].type,
            count |-> castNumber(newBreakdown[i].questionTypes[j].count)]]]]

RECURSIVE ReduceCounts(_, _)
\* lo.questionTypes.reduce((loTotal, qt) => loTotal + qt.count, loTotal)
ReduceCounts(loTotal, questionTypes) ==
  IF questionTypes = <<>> THEN loTotal
  ELSE ReduceCounts(JsAdd(loTotal, Head(questionTypes).count), Tail(questionTypes))

RECURSIVE ReduceBreakdown(_, _)
\* newBreakdown.reduce((total, lo) => total + <the total of lo>, total)
ReduceBreakdown(total, newBreakdown) ==
  IF newBreakdown = <<>> THEN total
  ELSE ReduceBreakdown(
         JsAdd(total, ReduceCounts(JsNum(0), Head(newBreakdown).questionTypes)),
         Tail(newBreakdown))

\* generationPlanSchema.methods.updateDistribution
updateDistribution(plan) ==
  [plan EXCEPT !.distribution = Distribution(plan.breakdown, plan.totalQuestions)]

\* generationPlanSchema.methods.addModification, before its save
\* Faulty variant of addModification: the record replaces the earlier ones.
addModificationOnly(plan, userId, changes, previousData) ==
  [plan EXCEPT
     !.modifications = <<[modifiedBy |-> userId, changes |-> changes,
                          previousBreakdown |-> previousData]>>,
     !.status = "modified"]

addModification(plan, userId, changes, previousData) ==
  [plan EXCEPT
     !.modifications = Append(@, [modifiedBy |-> userId, changes |-> changes,
                                  previousBreakdown |-> previousData]),
     !.status = "modified"]

\* generationPlanSchema.methods.updateBreakdown, before its save
updateBreakdown(plan, newBreakdown, userId) ==
  addModification(
    updateDistribution(
      [plan EXCEPT !.breakdown = castBreakdown(newBreakdown),
                   !.totalQuestions =
                      castNumber(ReduceBreakdown(JsNum(0), newBreakdown))]),
    userId, "Breakdown updated", plan.breakdown)

\* The validation of a plan at save: every percentage is a number in 0..100.
PlanValidates(plan) ==
  \A i \in DOMAIN plan.distribution :
    /\ plan.distribution[i].percentage # NaN
    /\ plan.distribution[i].percentage >= 0
    /\ plan.distribution[i].percentage <= 100

\* The plan, if there is one, has not been revised.
Unrevised(p) == p \in DOMAIN plans => plans[p].modifications = <<>>

\* PUT /api/plans/:id; given tells whether the body has a breakdown.
updatePlan(u, p, given, breakdown) ==
  IF ~(p \in DOMAIN plans /\ plans[p].createdBy = u)
  THEN Reject("updatePlan", p, HTTP_NOT_FOUND)
  ELSE IF ~given
  THEN /\ last' = Response("updatePlan", p, HTTP_OK, <<>>)
       /\ UNCHANGED <<auth, inflight, pending, db, nextId>>
  ELSE LET new == updateBreakdown(plans[p], breakdown, u) IN
       IF ~PlanValidates(new)
       THEN Reject("updatePlan", p, HTTP_INTERNAL_SERVER_ERROR)
       ELSE /\ Len(plans[p].modifications) < MaxModifications
            /\ plans' = [plans EXCEPT ![p] = new]
            /\ last' = [op |-> "updatePlan", id |-> p, res |-> HTTP_OK, ids |-> <<>>,
                        by |-> u, breakdown |-> breakdown]
            /\ UNCHANGED <<auth, inflight, pending, folders, materials, quizzes, objectives, questions, nextId>>

\* POST /api/plans/:id/approve
approvePlan(u, p) ==
  IF ~(p \in DOMAIN plans /\ plans[p].createdBy = u)
  THEN Reject("approvePlan", p, HTTP_NOT_FOUND)
  ELSE LET q == plans[p].quiz IN
       /\ plans' = [plans EXCEPT ![p] = approve(@)]
       /\ quizzes' = IF q \in DOMAIN quizzes
                     THEN [quizzes EXCEPT ![q] = setActivePlan(@, p)]
                     ELSE quizzes
       /\ last' = Response("approvePlan", p, HTTP_OK, <<>>)
       /\ UNCHANGED <<auth, inflight, pending, folders, materials, objectives, questions, nextId>>

\* Faulty variant of the active-plan test: no plan counts as active.
NoPlanIsActive(p) == FALSE

\* quiz && quiz.activePlan && quiz.activePlan.equals(planId)
IsActivePlan(p) ==
  LET q == plans[p].quiz IN
  /\ q \in DOMAIN quizzes
  /\ quizzes[q].activePlan \notin {Undefined, Null}
  /\ quizzes[q].activePlan = p

\* DELETE /api/plans/:id
deletePlan(u, p) ==
  IF ~(p \in DOMAIN plans /\ plans[p].createdBy = u)
  THEN Reject("deletePlan", p, HTTP_NOT_FOUND)
  ELSE IF IsActivePlan(p)
  THEN Reject("deletePlan", p, HTTP_BAD_REQUEST)
  ELSE /\ plans' = Remove(plans, p)
       /\ last' = Response("deletePlan", p, HTTP_OK, <<>>)
       /\ UNCHANGED <<auth, inflight, pending, folders, materials, quizzes, objectives, questions, nextId>>

(* ----------------------------------------------------- question handlers *)
NewQuestionDoc(q, lo, plan, type, order, user) ==
  [quiz |-> q, learningObjective |-> lo, generationPlan |-> plan, type |-> type,
   order |-> order, createdBy |-> user,
   questionText |-> "t1", content |-> "c1", correctAnswer |-> "a1",
   reviewStatus |-> "pending", editHistory |-> <<>>]

\* The placeholder content generateQuestionContent returns for a type.
generateQuestionContent(type) ==
  [questionText |-> "generated text", content |-> "generated content",
   correctAnswer |-> "generated answer"]

\* generateQuestion: a new question with the generated content.
generateQuestion(q, lo, type, plan, order, user) ==
  LET questionData == generateQuestionContent(type) IN
  [NewQuestionDoc(q, lo, plan, type, order, user) EXCEPT
     !.questionText = questionData.questionText,
     !.content = questionData.content,
     !.correctAnswer = questionData.correctAnswer]

\* The snapshot a question's edit keeps of the values it replaces.
previousData(question) ==
  [questionText |-> question.questionText, content |-> question.content,
   correctAnswer |-> question.correctAnswer]

\* questionSchema.methods.addEdit, before its save
addEdit(question, userId, changes, previous) ==
  [question EXCEPT
     !.editHistory = Append(@, [editedBy |-> userId, changes |-> changes,
                                previousVersion |-> previous])]

RECURSIVE Repeat(_, _)
Repeat(x, n) == IF n <= 0 THEN <<>> ELSE <<x>> \o Repeat(x, n - 1)

RECURSIVE TypeJobs(_, _)
\* One entry per question of one breakdown item, in the order of the loops.
TypeJobs(lo, questionTypes) ==
  IF questionTypes = <<>> THEN <<>>
  ELSE Repeat([learningObjective |-> lo, type |-> Head(questionTypes).type],
              Head(questionTypes).count)
       \o TypeJobs(lo, Tail(questionTypes))

RECURSIVE PlanJobs(_)
\* One entry per question the loops over plan.breakdown ask for.
PlanJobs(breakdown) ==
  IF breakdown = <<>> THEN <<>>
  ELSE TypeJobs(Head(breakdown).learningObjective, Head(breakdown).questionTypes)
       \o PlanJobs(Tail(breakdown))

\* The jobs done before the first one whose objective no longer exists (the
\* populated reference is null there and the loop throws).
RECURSIVE DoneJobs(_)
DoneJobs(jobs) ==
  IF jobs = <<>> \/ Head(jobs).learningObjective \notin DOMAIN objectives THEN <<>>
  ELSE <<Head(jobs)>> \o DoneJobs(Tail(jobs))

RECURSIVE addQuestions(_, _)
\* quiz.addQuestion for each id of a sequence, in order.
addQuestions(q, ids) ==
  IF ids = <<>> THEN q ELSE addQuestions(addQuestion(q, Head(ids)), Tail(ids))

\* POST /api/questions/generate-from-plan
generateQuestionsFromPlan(u, q, p) ==
  IF ~(q \in DOMAIN quizzes /\ quizzes[q].createdBy = u)
  THEN Reject("generateQuestions", q, HTTP_NOT_FOUND)
  ELSE IF ~(/\ p \in DOMAIN plans
            /\ plans[p].quiz = q
            /\ plans[p].status = "approved"
            /\ plans[p].createdBy = u)
  THEN Reject("generateQuestions", q, HTTP_NOT_FOUND)
  ELSE LET jobs == PlanJobs(plans[p].breakdown)
           done == DoneJobs(jobs)
           ok == Len(done) = Len(jobs)
           first == nextId.question
           new == [i \in 1..Len(done) |-> first + i - 1]
           record == IF ok
                     THEN [approach |-> plans[p].approach,
                           questionsGenerated |-> Len(done),
                           processingTime |-> 5000, llmModel |-> "llama3.1:8b",
                           success |-> TRUE, errorMessage |-> ""]
                     ELSE [approach |-> plans[p].approach,
                           questionsGenerated |-> 0,
                           processingTime |-> 2000, llmModel |-> "llama3.1:8b",
                           success |-> FALSE, errorMessage |-> "TypeError"]
       IN /\ Room("question", Len(done))
          /\ Len(quizzes[q].generationHistory) < MaxHistory
          /\ questions' =
               [x \in DOMAIN questions \cup Range(new) |->
                  IF x \in Range(new)
                  THEN generateQuestion(q, done[x - first + 1].learningObjective,
                                        done[x - first + 1].type, p, x - first, u)
                  ELSE questions[x]]
          /\ quizzes' = [quizzes EXCEPT
               ![q] = addGenerationRecord(addQuestions(@, new), record)]
          /\ plans' = IF ok THEN [plans EXCEPT ![p] = markAsUsed(@)] ELSE plans
          /\ nextId' = [nextId EXCEPT !.question = first + Len(done)]
          /\ last' = Response("generateQuestions", p,
                              IF ok THEN HTTP_CREATED ELSE HTTP_SERVICE_UNAVAILABLE, new)
          /\ UNCHANGED <<auth, inflight, pending, folders, materials, objectives>>

\* Question.findOne({quiz}).sort({order: -1}): the next order number.
NextQuestionOrder(q) ==
  LET of == {x \in DOMAIN questions : questions[x].quiz = q} IN
  IF of = {} THEN 0
  ELSE (CHOOSE n \in {questions[x].order : x \in of} :
          \A x \in of : questions[x].order <= n) + 1

\* POST /api/questions
createQuestion(u, q, lo, type) ==
  /\ Room("question", 1)
  /\ IF ~(q \in DOMAIN quizzes /\ quizzes[q].createdBy = u)
     THEN Reject("createQuestion", q, HTTP_NOT_FOUND)
     ELSE IF ~(lo \in DOMAIN objectives /\ objectives[lo].quiz = q)
     THEN Reject("createQuestion", q, HTTP_NOT_FOUND)
     ELSE LET id == nextId.question IN
          /\ questions' = Put(questions, id,
               NewQuestionDoc(q, lo, Undefined, type, NextQuestionOrder(q), u))
          /\ quizzes' = [quizzes EXCEPT ![q] = addQuestion(@, id)]
          /\ nextId' = [nextId EXCEPT !.question = id + 1]
          /\ last' = Response("createQuestion", id, HTTP_CREATED, <<>>)
          /\ UNCHANGED <<auth, inflight, pending, folders, materials, objectives, plans>>

\* DELETE /api/questions/:id
deleteQuestion(u, x) ==
  IF ~(x \in DOMAIN questions /\ questions[x].createdBy = u)
  THEN Reject("deleteQuestion", x, HTTP_NOT_FOUND)
  ELSE LET q == questions[x].quiz IN
       /\ quizzes' = IF q \in DOMAIN quizzes
                     THEN [quizzes EXCEPT ![q] = removeQuestion(@, x)]
                     ELSE quizzes
       /\ questions' = Remove(questions, x)
       /\ last' = Response("deleteQuestion", x, HTTP_OK, <<>>)
       /\ UNCHANGED <<auth, inflight, pending, folders, materials, objectives, plans, nextId>>

\* POST /api/questions/:id/regenerate: the question gets new content and an
\* entry in its edit history; a question whose objective is gone makes the
\* generation step throw.
regenerateQuestion(u, x) ==
  IF ~(x \in DOMAIN questions /\ questions[x].createdBy = u)
  THEN Reject("regenerateQuestion", x, HTTP_NOT_FOUND)
  ELSE IF questions[x].learningObjective \notin DOMAIN objectives
  THEN Reject("regenerateQuestion", x, HTTP_SERVICE_UNAVAILABLE)
  ELSE LET new == generateQuestionContent(questions[x].type) IN
       /\ Len(questions[x].editHistory) < MaxEdits
       /\ questions' = [questions EXCEPT ![x] =
            addEdit([@ EXCEPT !.questionText = new.questionText,
                              !.content = new.content,
                              !.correctAnswer = new.correctAnswer],
                    u, "AI regeneration", previousData(questions[x]))]
       /\ last' = Response("regenerateQuestion", x, HTTP_OK, <<>>)
       /\ UNCHANGED <<auth, inflight, pending, folders, materials, quizzes, objectives, plans, nextId>>

\* The fields of a body, of the fields a question update may set.
Given(updates, field) == field \in DOMAIN updates

\* Faulty variant of the question update: every field of the body is assigned.
updateQuestionAssignAll(u, x, updates) ==
  IF ~(x \in DOMAIN questions /\ questions[x].createdBy = u)
  THEN Reject("updateQuestion", x, HTTP_NOT_FOUND)
  ELSE LET question == questions[x]
           updated ==
             [field \in DOMAIN question |->
                IF field \in DOMAIN updates THEN updates[field] ELSE question[field]]
       IN /\ Len(question.editHistory) < MaxEdits
          /\ questions' = [questions EXCEPT ![x] =
               addEdit(updated, u, "Manual update", previousData(question))]
          /\ last' = Response("updateQuestion", x, HTTP_OK, <<>>)
          /\ UNCHANGED <<auth, inflight, pending, folders, materials, quizzes, objectives, plans, nextId>>

\* PUT /api/questions/:id
updateQuestion(u, x, updates) ==
  IF ~(x \in DOMAIN questions /\ questions[x].createdBy = u)
  THEN Reject("updateQuestion", x, HTTP_NOT_FOUND)
  ELSE LET question == questions[x]
           updated ==
             [question EXCEPT
                !.questionText = IF Given(updates, "questionText")
                                 THEN updates.questionText ELSE @,
                !.content = IF Given(updates, "content") THEN updates.content ELSE @,
                !.correctAnswer = IF Given(updates, "correctAnswer")
                                  THEN updates.correctAnswer ELSE @]
       IN /\ Len(question.editHistory) < MaxEdits
          /\ questions' = [questions EXCEPT ![x] =
               addEdit(updated, u, "Manual update", previousData(question))]
          /\ last' = Response("updateQuestion", x, HTTP_OK, <<>>)
          /\ UNCHANGED <<auth, inflight, pending, folders, materials, quizzes, objectives, plans, nextId>>

\* Faulty variant of markAsReviewed: an approved question stays approved.
markAsReviewedOnce(question, status) ==
  IF question.reviewStatus = "approved" THEN question
  ELSE [question EXCEPT !.reviewStatus = status]

\* questionSchema.methods.markAsReviewed, before its save
markAsReviewed(question, status) == [question EXCEPT !.reviewStatus = status]

\* PUT /api/questions/:id/review
reviewQuestion(u, x, status) ==
  IF status \notin REVIEW_STATUS
  THEN Reject("reviewQuestion", x, HTTP_BAD_REQUEST)
  ELSE IF ~(x \in DOMAIN questions /\ questions[x].createdBy = u)
  THEN Reject("reviewQuestion", x, HTTP_NOT_FOUND)
  ELSE /\ questions' = [questions EXCEPT ![x] = markAsReviewed(@, status)]
       /\ last' = [op |-> "reviewQuestion", id |-> x, res |-> HTTP_OK, ids |-> <<>>,
                   found |-> questions[x].reviewStatus, status |-> status]
       /\ UNCHANGED <<auth, inflight, pending, folders, materials, quizzes, objectives, plans, nextId>>

\* PUT /api/questions/reorder
reorderQuestions(u, q, questionIds) ==
  IF Len(questionIds) < 1
  THEN Reject("reorderQuestions", q, HTTP_BAD_REQUEST)
  ELSE IF ~(q \in DOMAIN quizzes /\ quizzes[q].createdBy = u)
  THEN Reject("reorderQuestions", q, HTTP_NOT_FOUND)
  ELSE LET found == {x \in Range(questionIds) :
                       /\ x \in DOMAIN questions
                       /\ questions[x].quiz = q
                       /\ questions[x].createdBy = u}
       IN IF Cardinality(found) # Len(questionIds)
          THEN Reject("reorderQuestions", q, HTTP_BAD_REQUEST)
          ELSE /\ questions' = reorderDocs(questions, questionIds)
               /\ last' = Response("reorderQuestions", q, HTTP_OK, questionIds)
               /\ UNCHANGED <<auth, inflight, pending, folders, materials, quizzes, objectives, plans, nextId>>

(* ------------------------------------------------------ specifications *)
\* Folders, materials, quizzes and what a quiz collects.
Next ==
  \/ \E u \in Instructors, name \in FolderNames :
       nextId.folder <= MaxSingle /\ createFolder(u, name)
  \/ \E u \in Instructors, f \in Ids("folder") : deleteFolder(u, f)
  \/ \E u \in Instructors, f \in Ids("folder"), c \in Contents :
       nextId.material <= MaxAssignable /\ createTextMaterial(u, f, c)
  \/ \E u \in Instructors, m \in Ids("material") : deleteMaterial(u, m)
  \/ \E u \in Instructors, f \in Ids("folder"), n \in QuizNames : createQuiz(u, f, n)
  \/ \E u \in Instructors, q \in Ids("quiz") : deleteQuiz(u, q)
  \/ \E u \in Instructors, q \in Ids("quiz"), ms \in IdLists("material") :
       assignMaterials(u, q, ms)
  \/ \E u \in Instructors, q \in Ids("quiz") : duplicateQuiz(u, q, "")
  \/ \E u \in Instructors, q \in Ids("quiz")  :
       Manual("objective") /\ createObjective(u, q, Undefined)
  \/ \E u \in Instructors, o \in Ids("objective") : deleteObjective(u, o)
  \/ \E u \in Instructors, q \in Ids("quiz") : generatePlan(u, q, "assess", 1)
  \/ \E u \in Instructors, p \in Ids("plan") : deletePlan(u, p)
  \/ \E u \in Instructors, q \in Ids("quiz"), lo \in Ids("objective") :
       nextId.question <= MaxLifecycleQuestions
       /\ createQuestion(u, q, lo, "multiple-choice")
  \/ \E u \in Instructors, x \in Ids("question") : deleteQuestion(u, x)

Spec == Init /\ [][Next]_vars

\* Generation plans of a quiz: generation, approval, use and deletion.
NextPlan ==
  \/ \E u \in Users, name \in FolderNames :
       nextId.folder <= MaxSingle /\ createFolder(u, name)
  \/ \E u \in Users, f \in Ids("folder"), n \in QuizNames : createQuiz(u, f, n)
  \/ \E u \in Users, q \in Ids("quiz") : deleteQuiz(u, q)
  \/ \E u \in Users, q \in Ids("quiz")  :
       Manual("objective") /\ createObjective(u, q, Undefined)
  \/ \E u \in Users, o \in Ids("objective") : deleteObjective(u, o)
  \/ \E u \in Users, q \in Ids("quiz"), a \in ApproachInputs, n \in PerLOInputs :
       generatePlan(u, q, a, n)
  \/ \E u \in Users, p \in Ids("plan") : approvePlan(u, p)
  \/ \E u \in Users, p \in Ids("plan") : deletePlan(u, p)
  \/ \E u \in Users, q \in Ids("quiz"), p \in Ids("plan") :
       generateQuestionsFromPlan(u, q, p)
  \/ \E u \in Users, x \in Ids("question") : deleteQuestion(u, x)

SpecPlan == Init /\ [][NextPlan]_vars

\* Objectives and questions of a quiz and their order.
NextOrder ==
  \/ \E u \in Users, name \in FolderNames :
       nextId.folder <= MaxSingle /\ createFolder(u, name)
  \/ \E u \in Users, f \in Ids("folder"), n \in QuizNames : createQuiz(u, f, n)
  \/ \E u \in Users, q \in Ids("quiz"), order \in OrderInputs :
       Manual("objective") /\ createObjective(u, q, order)
  \/ \E u \in Users, o \in Ids("objective") : deleteObjective(u, o)
  \/ \E u \in Users, q \in Ids("quiz"), os \in IdLists("objective") :
       reorderObjectives(u, q, os)
  \/ \E u \in Users, q \in Ids("quiz"), lo \in Ids("objective") :
       Manual("question") /\ createQuestion(u, q, lo, "multiple-choice")
  \/ \E u \in Users, x \in Ids("question") : deleteQuestion(u, x)
  \/ \E u \in Users, q \in Ids("quiz"), xs \in IdLists("question") :
       reorderQuestions(u, q, xs)
  \/ \E u \in Users, f \in Ids("folder"), c \in Contents :
       nextId.material <= MaxAssignable /\ createTextMaterial(u, f, c)
  \/ \E u \in Users, q \in Ids("quiz"), ms \in IdLists("material") :
       generateObjectives(u, q, ms)

SpecOrder == Init /\ [][NextOrder]_vars

\* One instructor's way from objectives to a plan, its revision and approval,
\* and the questions generated from it.
NextGeneration ==
  \/ \E u \in Instructors, name \in FolderNames :
       nextId.folder <= MaxSingle /\ createFolder(u, name)
  \/ \E u \in Instructors, f \in Ids("folder"), n \in QuizNames :
       nextId.quiz <= MaxScenario /\ createQuiz(u, f, n)
  \/ \E u \in Instructors, q \in Ids("quiz"), order \in OrderInputs :
       Manual("objective") /\ createObjective(u, q, order)
  \/ \E u \in Instructors, q \in Ids("quiz"), n \in ScenarioPerLOInputs :
       nextId.plan <= MaxScenario /\ generatePlan(u, q, "support", n)
  \/ \E u \in Instructors, p \in Ids("plan") : updatePlan(u, p, FALSE, <<>>)
  \/ \E u \in Instructors, p \in Ids("plan"), breakdown \in BreakdownInputs :
       Unrevised(p) /\ updatePlan(u, p, TRUE, breakdown)
  \/ \E u \in Instructors, p \in Ids("plan") : approvePlan(u, p)
  \/ \E u \in Instructors, q \in Ids("quiz"), p \in Ids("plan") :
       generateQuestionsFromPlan(u, q, p)

SpecGeneration == Init /\ [][NextGeneration]_vars

\* The materials of a folder; text-material requests may overlap. The
\* processing job takes a pending material up and ends it completed or failed.
NextMaterial ==
  \/ \E u \in Users, name \in FolderNames :
       nextId.folder <= MaxSingle /\ createFolder(u, name)
  \/ \E u \in Users, f \in Ids("folder"), c \in Contents : createTextMaterial(u, f, c)
  \/ \E u \in Users, f \in Ids("folder"), c \in Contents : findTextMaterial(u, f, c)
  \/ \E i \in 1..MaxPending : saveTextMaterial(i)
  \/ \E u \in Users, f \in Ids("folder"), url \in Urls : createUrlMaterial(u, f, url)
  \/ \E u \in Users, m \in Ids("material") : reprocessMaterial(u, m)
  \/ \E u \in Users, m \in Ids("material") : deleteMaterial(u, m)
  \/ \E m \in DOMAIN materials :
       materials[m].processingStatus = "pending" /\ markAsProcessing(m)
  \/ \E m \in DOMAIN materials :
       materials[m].processingStatus = "processing" /\ markAsCompleted(m)
  \/ \E m \in DOMAIN materials, error \in ErrorInputs :
       materials[m].processingStatus = "processing" /\ markAsFailed(m, error)

SpecMaterial == Init /\ [][NextMaterial]_vars

\* The texts of objectives and questions, their edits and reviews.
NextEdit ==
  \/ \E u \in Users, name \in FolderNames :
       nextId.folder <= MaxSingle /\ createFolder(u, name)
  \/ \E u \in Users, f \in Ids("folder"), n \in QuizNames :
       nextId.quiz <= MaxScenario /\ createQuiz(u, f, n)
  \/ \E u \in Users, q \in Ids("quiz") :
       nextId.objective <= MaxScenario /\ createObjective(u, q, Undefined)
  \/ \E u \in Users, o \in Ids("objective"), text \in TextInputs, order \in OrderInputs :
       updateObjective(u, o, text, order)
  \/ \E u \in Users, q \in Ids("quiz"), lo \in Ids("objective") :
       nextId.question <= MaxScenario /\ createQuestion(u, q, lo, "multiple-choice")
  \/ \E u \in Users, x \in Ids("question"), updates \in UpdateInputs :
       updateQuestion(u, x, updates)
  \/ \E u \in Users, x \in Ids("question") : regenerateQuestion(u, x)
  \/ \E u \in Users, x \in Ids("question"), status \in ReviewInputs :
       reviewQuestion(u, x, status)
  \/ \E u \in Users, x \in Ids("question") : deleteQuestion(u, x)
  \/ \E u \in Users, q \in Ids("quiz"), name \in QuizRenameInputs : updateQuiz(u, q, name)

SpecEdit == Init /\ [][NextEdit]_vars
(* ---------------------------------------------------------------- claims *)
\* The derivation the specification states: a flag per collection that is not
\* empty, planApproved when an active plan is set.
hasActivePlan(q) == q.activePlan \notin {Undefined, Null}

deriveProgress(q) ==
  [materialsAssigned |-> q.materials # {},
   objectivesSet |-> q.learningObjectives # {},
   planGenerated |-> q.generationPlans # {},
   planApproved |-> hasActivePlan(q),
   questionsGenerated |-> q.questions # {},
   reviewCompleted |-> q.progress.reviewCompleted]

deriveStatus(p) ==
  IF p.questionsGenerated THEN "completed"
  ELSE IF p.planApproved THEN "plan-approved"
  ELSE IF p.planGenerated THEN "plan-generated"
  ELSE IF p.objectivesSet THEN "objectives-set"
  ELSE IF p.materialsAssigned THEN "materials-assigned"
  ELSE "draft"

\* C1: after any sequence of completed mutations, every quiz's stored progress
\* equals deriveProgress of its materials, objectives, plans, activePlan and
\* questions, and its stored status equals deriveStatus of those flags.
C1_ProgressAndStatusDerived ==
  \A q \in DOMAIN quizzes :
    /\ quizzes[q].progress = deriveProgress(quizzes[q])
    /\ quizzes[q].status = deriveStatus(quizzes[q].progress)

\* C2: updateProgress leaves the status of the highest completed stage and
\* draft when none is: once a request has removed the last material, objective
\* or question of a quiz that has no plan and no active plan, its status is
\* draft again.
C2_EmptiedQuizIsDraft ==
  (last.op \in {"assignMaterials", "deleteObjective", "deleteQuestion"}
     /\ last.res = HTTP_OK)
  => \A q \in DOMAIN quizzes :
       (/\ quizzes[q].materials = {}
        /\ quizzes[q].learningObjectives = {}
        /\ quizzes[q].generationPlans = {}
        /\ quizzes[q].questions = {}
        /\ ~hasActivePlan(quizzes[q]))
       => quizzes[q].status = "draft"

\* C3: planApproved is true exactly when the quiz has an active plan, and a
\* quiz without an active plan never has the status plan-approved.
C3_PlanApprovedIffActivePlan ==
  \A q \in DOMAIN quizzes :
    /\ quizzes[q].progress.planApproved <=> hasActivePlan(quizzes[q])
    /\ quizzes[q].status = "plan-approved" => hasActivePlan(quizzes[q])

\* C4: after deleteObjective succeeds, no question of the deleted objective is
\* left, no quiz lists a question that was removed, and a quiz without
\* questions has questionsGenerated false.
C4_DeleteObjectiveCascades ==
  (last.op = "deleteObjective" /\ last.res = HTTP_OK)
  => /\ \A x \in DOMAIN questions : questions[x].learningObjective # last.id
     /\ \A q \in DOMAIN quizzes :
          /\ quizzes[q].questions \subseteq DOMAIN questions
          /\ (\A x \in DOMAIN questions : questions[x].quiz # q)
               => ~quizzes[q].progress.questionsGenerated

\* C5: after deleteMaterial, deletePlan or deleteQuestion succeeds, no quiz
\* lists the deleted id in its materials, generationPlans or questions, and a
\* quiz whose only plan was deleted has planGenerated false.
C5_DeleteDetachesFromQuiz ==
  last.res = HTTP_OK
  => \A q \in DOMAIN quizzes :
       /\ last.op = "deleteMaterial" => last.id \notin quizzes[q].materials
       /\ last.op = "deleteQuestion" => last.id \notin quizzes[q].questions
       /\ last.op = "deletePlan" =>
            /\ last.id \notin quizzes[q].generationPlans
            /\ (\A p \in DOMAIN plans : plans[p].quiz # q)
                 => ~quizzes[q].progress.planGenerated

\* C6: after deleteQuiz succeeds, the quiz record is gone, no objective,
\* question or plan of the deleted quiz remains, and no folder lists the quiz.
C6_DeleteQuizCascades ==
  (last.op = "deleteQuiz" /\ last.res = HTTP_OK)
  => /\ last.id \notin DOMAIN quizzes
     /\ \A o \in DOMAIN objectives : objectives[o].quiz # last.id
     /\ \A x \in DOMAIN questions : questions[x].quiz # last.id
     /\ \A p \in DOMAIN plans : plans[p].quiz # last.id
     /\ \A f \in DOMAIN folders : last.id \notin folders[f].quizzes

\* A quiz was deleted after an objective, a plan and a question had been
\* created, and none of them is left.
C6_QuizWithChildrenDeleted ==
  /\ last.op = "deleteQuiz" /\ last.res = HTTP_OK
  /\ nextId.objective > 1 /\ nextId.plan > 1 /\ nextId.question > 1
  /\ objectives = <<>> /\ plans = <<>> /\ questions = <<>>
  /\ folders # <<>>

\* C7: deleteFolder on a folder that holds a quiz or a material is answered
\* with Conflict.
C7_NonEmptyFolderDeleteIsConflict ==
  (/\ last.op = "deleteFolder"
   /\ last.id \in DOMAIN folders
   /\ (folders[last.id].quizzes # {} \/ folders[last.id].materials # {}))
  => last.res = HTTP_CONFLICT

\* The plans of a quiz that are approved or used and are its active plan.
ApprovedActivePlans(q) ==
  {p \in DOMAIN plans :
     /\ plans[p].quiz = q
     /\ plans[p].status \in {"approved", "used"}
     /\ quizzes[q].activePlan = p}

C9_ActivePlanNotDeletable ==
  [][\A u \in Users, p \in DOMAIN plans :
       (deletePlan(u, p) /\ plans[p].createdBy = u)
       => IF plans[p].quiz \in DOMAIN quizzes /\ quizzes[plans[p].quiz].activePlan = p
          THEN /\ last'.res \notin {HTTP_OK, HTTP_CREATED}
               /\ p \in DOMAIN plans' /\ plans'[p] = plans[p]
               /\ quizzes' = quizzes
               /\ UNCHANGED db
          ELSE /\ last'.res = HTTP_OK
               /\ p \notin DOMAIN plans']_vars

\* A deletePlan on the active plan of a quiz was rejected.
C9_ActivePlanDeleteRejected ==
  /\ last.op = "deletePlan" /\ last.res = HTTP_BAD_REQUEST
  /\ last.id \in DOMAIN plans
  /\ plans[last.id].quiz \in DOMAIN quizzes
  /\ quizzes[plans[last.id].quiz].activePlan = last.id

DenseOrder(docs, q) ==
  LET of == {d \in DOMAIN docs : docs[d].quiz = q} IN
  /\ {docs[d].order : d \in of} = 0..(Cardinality(of) - 1)
  /\ \A d, e \in of : docs[d].order = docs[e].order => d = e

C12_ObjectiveOrderDense ==
  \A q \in DOMAIN quizzes : DenseOrder(objectives, q)

\* C13: in every state the order values of a quiz's N questions are exactly
\* 0 .. N-1.
C13_QuestionOrderDense ==
  \A q \in DOMAIN quizzes : DenseOrder(questions, q)

\* The sum of the totalCount values of a distribution.
RECURSIVE SumTotalCounts(_)
SumTotalCounts(distribution) ==
  IF distribution = <<>> THEN 0
  ELSE Head(distribution).totalCount + SumTotalCounts(Tail(distribution))

\* C14: after an accepted update of a plan's breakdown the plan's
\* totalQuestions is the sum of all counts of its breakdown, and the
\* totalCount values of its distribution sum to totalQuestions.
C14_UpdateBreakdownKeepsTotals ==
  (/\ last.op = "updatePlan" /\ last.res = HTTP_OK
   /\ plans[last.id].status = "modified")
  => /\ plans[last.id].totalQuestions = SumCounts(FlatTypes(plans[last.id].breakdown))
     /\ SumTotalCounts(plans[last.id].distribution) = plans[last.id].totalQuestions

\* C15: a plan just produced by generatePlan has totalQuestions equal to the
\* number of the quiz's objectives times questionsPerLO, and equal to the
\* sum of all counts of its breakdown.
C15_PlanTotalIsBreakdownSum ==
  (last.op = "generatePlan" /\ last.res = HTTP_CREATED)
  => LET plan == plans[last.id] IN
     /\ plan.totalQuestions = Len(ObjectivesOf(plan.quiz)) * plan.questionsPerLO
     /\ plan.totalQuestions = SumCounts(FlatTypes(plan.breakdown))

\* The plan of the scenario: approach support, three questions per objective,
\* generated for two objectives and not revised since.
ScenarioPlan(p) ==
  /\ p \in DOMAIN plans
  /\ plans[p].approach = "support"
  /\ plans[p].questionsPerLO = 3
  /\ Len(plans[p].breakdown) = 2
  /\ plans[p].modifications = <<>>

\* The quiz of the scenario: two objectives, of order 0 and 1.
ScenarioQuiz(q) ==
  /\ q \in DOMAIN quizzes
  /\ Len(ObjectivesOf(q)) = 2
  /\ objectives[ObjectivesOf(q)[1]].order = 0
  /\ objectives[ObjectivesOf(q)[2]].order = 1

\* C16: for a quiz with two objectives of order 0 and 1, generatePlan with
\* approach support and three questions per objective yields a plan of six
\* questions; approving it makes it the quiz's active plan and the quiz
\* plan-approved; generating from the approved plan creates exactly six
\* questions and the quiz becomes completed.
C16_ScenarioOutcome ==
  /\ (/\ last.op = "generatePlan" /\ last.res = HTTP_CREATED
      /\ ScenarioPlan(last.id) /\ ScenarioQuiz(plans[last.id].quiz))
     => plans[last.id].totalQuestions = 6
  /\ (/\ last.op = "approvePlan" /\ last.res = HTTP_OK
      /\ ScenarioPlan(last.id) /\ ScenarioQuiz(plans[last.id].quiz)
      /\ quizzes[plans[last.id].quiz].questions = {})
     => /\ plans[last.id].status = "approved"
        /\ quizzes[plans[last.id].quiz].activePlan = last.id
        /\ quizzes[plans[last.id].quiz].status = "plan-approved"
  /\ (/\ last.op = "generateQuestions" /\ last.res = HTTP_CREATED
      /\ ScenarioPlan(last.id) /\ ScenarioQuiz(plans[last.id].quiz))
     => LET q == plans[last.id].quiz IN
        /\ Len(last.ids) = 6
        /\ Cardinality(Range(last.ids)) = 6
        /\ \A x \in Range(last.ids) :
             /\ x \in DOMAIN questions
             /\ questions[x].quiz = q
             /\ questions[x].generationPlan = last.id
        /\ Range(last.ids) \subseteq quizzes[q].questions
        /\ quizzes[q].status = "completed"

\* The scenario has run to its end: six questions were generated from the
\* approved plan of a quiz with two objectives.
C16_ScenarioCompleted ==
  /\ last.op = "generateQuestions" /\ last.res = HTTP_CREATED
  /\ ScenarioPlan(last.id) /\ ScenarioQuiz(plans[last.id].quiz)
  /\ plans[last.id].status = "used"
  /\ quizzes[plans[last.id].quiz].activePlan = last.id
  /\ Len(last.ids) = 6

\* The quiz a generation request just answered was about, if it is one.
AttemptedQuiz(l) ==
  CASE l.op = "generateObjectives" /\ l.res \in {HTTP_CREATED, HTTP_SERVICE_UNAVAILABLE}
         -> {l.id} \cap DOMAIN quizzes
    [] l.op = "generateQuestions" /\ l.res \in {HTTP_CREATED, HTTP_SERVICE_UNAVAILABLE}
         -> {plans[l.id].quiz} \cap DOMAIN quizzes
    [] l.op = "regenerateQuestion" /\ l.res \in {HTTP_OK, HTTP_SERVICE_UNAVAILABLE}
         -> {questions[l.id].quiz} \cap DOMAIN quizzes
    [] OTHER -> {}

\* C17: every generation attempt on a quiz (objectives, questions from a
\* plan, one question again), successful or not, appends exactly one entry to
\* the quiz's generationHistory, and no step changes or removes the entries
\* the history already has.
C17_AttemptAppendsOneRecord ==
  [][\A q \in DOMAIN quizzes \cap DOMAIN quizzes' :
       LET before == quizzes[q].generationHistory
           after == quizzes'[q].generationHistory
       IN /\ Len(after) >= Len(before)
          /\ SubSeq(after, 1, Len(before)) = before
          /\ Len(after) = Len(before) + (IF q \in AttemptedQuiz(last') THEN 1 ELSE 0)]_vars

\* C18: when generateQuestionsFromPlan fails after it has produced at least
\* one question, it answers 503 and appends a failure record, and the quiz's
\* questions, the stored questions, the plans and the quiz's progress and
\* status are what they were before the request.
C18_FailedGenerationKeepsContents ==
  [][(/\ last'.op = "generateQuestions"
      /\ last'.res = HTTP_SERVICE_UNAVAILABLE
      /\ DoneJobs(PlanJobs(plans[last'.id].breakdown)) # <<>>)
     => LET q == plans[last'.id].quiz IN
        /\ Len(quizzes'[q].generationHistory) = Len(quizzes[q].generationHistory) + 1
        /\ ~quizzes'[q].generationHistory[Len(quizzes'[q].generationHistory)].success
        /\ quizzes'[q].questions = quizzes[q].questions
        /\ questions' = questions
        /\ plans' = plans
        /\ quizzes'[q].progress = quizzes[q].progress
        /\ quizzes'[q].status = quizzes[q].status]_vars

\* C19: no two materials of one folder have the same checksum, whether the
\* requests that inserted them ran one after the other or overlapped.
C19_ChecksumUniqueInFolder ==
  \A m, n \in DOMAIN materials :
    (/\ materials[m].folder = materials[n].folder
     /\ materials[m].checksum # <<>>
     /\ materials[m].checksum = materials[n].checksum)
    => m = n

\* The changes of processingStatus the specification allows.
StatusTransitions ==
  {<<"pending", "processing">>, <<"processing", "completed">>,
   <<"processing", "failed">>, <<"failed", "pending">>}

\* C20: a material's processingStatus changes only from pending to
\* processing, from processing to completed or failed, and from failed to
\* pending.
C20_StatusChangesAsAllowed ==
  [][\A m \in DOMAIN materials \cap DOMAIN materials' :
       materials'[m].processingStatus # materials[m].processingStatus
       => <<materials[m].processingStatus, materials'[m].processingStatus>>
            \in StatusTransitions]_vars

IsPrefix(s, t) == Len(s) <= Len(t) /\ SubSeq(t, 1, Len(s)) = s

C23_ReviewStatusUnconstrained ==
  \A x \in DOMAIN questions, status \in ReviewInputs :
    ENABLED (/\ reviewQuestion(questions[x].createdBy, x, status)
             /\ IF status \in REVIEW_STATUS
                THEN /\ last'.res = HTTP_OK
                     /\ questions' = [questions EXCEPT ![x].reviewStatus = status]
                ELSE /\ last'.res = HTTP_BAD_REQUEST
                     /\ questions' = questions)

\* A question that was approved has been given another review status.
C23_ApprovedReviewedAgain ==
  /\ last.op = "reviewQuestion" /\ last.res = HTTP_OK
  /\ last.found = "approved"
  /\ last.status = "needs-review"
  /\ questions[last.id].reviewStatus = "needs-review"

(* ------------------------------------------------------------- ownership *)
\* Breakdowns of a request body that name any objective id, one question each.
OwnerBreakdownInputs ==
  {<<[learningObjective |-> lo,
      questionTypes |-> <<[type |-> "multiple-choice", count |-> JsNum(1)]>>]>> :
     lo \in Ids("objective")}

\* Two users, each with a folder, a quiz and objectives of their own; the
\* breakdown of a plan is revised with objective ids taken from the request.
NextOwner ==
  \/ \E u \in Users, name \in FolderNames : createFolder(u, name)
  \/ \E u \in Users, f \in Ids("folder"), n \in QuizNames : createQuiz(u, f, n)
  \/ \E u \in Users, q \in Ids("quiz") :
       Manual("objective") /\ createObjective(u, q, Undefined)
  \/ \E u \in Users, q \in Ids("quiz") :
       nextId.plan <= MaxScenario /\ generatePlan(u, q, "support", 1)
  \/ \E u \in Users, p \in Ids("plan"), breakdown \in OwnerBreakdownInputs :
       Unrevised(p) /\ updatePlan(u, p, TRUE, breakdown)
  \/ \E u \in Users, p \in Ids("plan") : approvePlan(u, p)
  \/ \E u \in Users, q \in Ids("quiz"), p \in Ids("plan") :
       generateQuestionsFromPlan(u, q, p)
  \/ \E u \in Users, o \in Ids("objective") : deleteObjective(u, o)

SpecOwner == Init /\ [][NextOwner]_vars

\* C24: an objective of another user counts as absent: generation from a
\* plan never succeeds on an objective that is not the caller's own, so every
\* question of a successful generation hangs on an objective of its creator.
C24_ForeignObjectiveIsAbsent ==
  (last.op = "generateQuestions" /\ last.res = HTTP_CREATED) =>
    \A x \in Range(last.ids) :
      /\ questions[x].learningObjective \in DOMAIN objectives
      /\ objectives[questions[x].learningObjective].createdBy = questions[x].createdBy

(* ------------------------------------------------------------ rejections *)
Rejections == {HTTP_BAD_REQUEST, HTTP_NOT_FOUND, HTTP_CONFLICT}

C26_AssignMaterialsChecksList ==
  [][last'.op = "assignMaterials" =>
       IF last'.res = HTTP_OK
       THEN /\ last'.ids # <<>>
            /\ \A i \in DOMAIN last'.ids :
                 /\ last'.ids[i] \in DOMAIN materials
                 /\ materials[last'.ids[i]].folder = quizzes[last'.id].folder
            /\ quizzes'[last'.id].materials = Range(last'.ids)
       ELSE quizzes' = quizzes]_vars

NextFolder ==
  \/ \E u \in Users, name \in FolderNameInputs : createFolder(u, name)
  \/ \E u \in Users, f \in Ids("folder"), name \in FolderRenameInputs :
       updateFolder(u, f, name)
  \/ \E u \in Users, f \in Ids("folder") : deleteFolder(u, f)
  \/ \E u \in Users, f \in Ids("folder"), n \in QuizNames :
       nextId.quiz <= MaxScenario /\ createQuiz(u, f, n)

SpecFolder == Init /\ [][NextFolder]_vars

\* C28: no two folders of one instructor have the same name, and the names
\* are stored trimmed; creating a folder under a name the instructor uses,
\* or renaming another folder to it, is answered with a conflict and changes
\* nothing, while a name only other instructors use can be taken.
C28_FolderNameUniquePerInstructor ==
  /\ \A f, g \in DOMAIN folders :
       (f # g /\ folders[f].instructor = folders[g].instructor)
         => folders[f].name # folders[g].name
  /\ \A f \in DOMAIN folders : trim(folders[f].name) = folders[f].name
  /\ \A u \in Users, name \in FolderNameInputs :
       Room("folder", 1) =>
         IF \E f \in DOMAIN folders :
              folders[f].instructor = u /\ folders[f].name = trim(name)
         THEN ENABLED (createFolder(u, name) /\ last'.res = HTTP_CONFLICT /\ db' = db)
         ELSE ENABLED (createFolder(u, name) /\ last'.res = HTTP_CREATED)
  /\ \A f, g \in DOMAIN folders, name \in FolderRenameInputs :
       (f # g /\ folders[f].instructor = folders[g].instructor
          /\ trim(name) = folders[g].name)
         => ENABLED (/\ updateFolder(folders[f].instructor, f, name)
                     /\ last'.res = HTTP_CONFLICT /\ db' = db)

\* A rename to the name of the instructor's other folder was refused.
C28_RenameRefused ==
  /\ last.op = "updateFolder" /\ last.res = HTTP_CONFLICT
  /\ \E f, g \in DOMAIN folders :
       f # g /\ folders[f].instructor = folders[g].instructor

(* --------------------------------------------------- overlapping requests *)
\* The array a save leaves stored: an array that only gained elements is
\* sent as a push of the new ones, one that lost elements is set as a whole,
\* one that is as it was read is not sent.
savedArray(stored, loaded, mine) ==
  IF mine = loaded THEN stored
  ELSE IF loaded \subseteq mine THEN stored \cup (mine \ loaded)
  ELSE mine

\* quiz.save(): the paths that differ from the document as it was read are
\* written, the others stay as they are stored.
saveQuiz(stored, loaded, mine) ==
  [stored EXCEPT
     !.materials = savedArray(@, loaded.materials, mine.materials),
     !.learningObjectives =
        savedArray(@, loaded.learningObjectives, mine.learningObjectives),
     !.questions = savedArray(@, loaded.questions, mine.questions),
     !.generationPlans = savedArray(@, loaded.generationPlans, mine.generationPlans),
     !.status = IF mine.status # loaded.status THEN mine.status ELSE @,
     !.activePlan = IF mine.activePlan # loaded.activePlan THEN mine.activePlan ELSE @,
     !.progress = [flag \in DOMAIN @ |->
                     IF mine.progress[flag] # loaded.progress[flag]
                     THEN mine.progress[flag] ELSE @[flag]]]

\* A save that sets an array as a whole is sent with the version the quiz
\* was read at.
setsArray(loaded, mine) ==
  \E path \in {"materials", "learningObjectives", "questions", "generationPlans"} :
    ~(loaded[path] \subseteq mine[path])

\* The requests in flight, without the i-th; those on quiz q have read a
\* version that is no longer the stored one.
Outdated(i, q) ==
  LET rest == SubSeq(inflight, 1, i - 1) \o SubSeq(inflight, i + 1, Len(inflight))
  IN [j \in DOMAIN rest |->
        IF rest[j].quiz = q THEN [rest[j] EXCEPT !.stale = TRUE] ELSE rest[j]]

\* POST /api/objectives up to objective.save(): the quiz was read and the
\* objective is stored.
readCreateObjective(u, q) ==
  /\ Room("objective", 1)
  /\ Len(inflight) < MaxInflight
  /\ IF ~(q \in DOMAIN quizzes /\ quizzes[q].createdBy = u)
     THEN Reject("createObjective", q, HTTP_NOT_FOUND)
     ELSE LET id == nextId.objective IN
          /\ objectives' = Put(objectives, id, NewObjectiveDoc(q, 0, u))
          /\ nextId' = [nextId EXCEPT !.objective = id + 1]
          /\ inflight' = Append(inflight,
               [op |-> "createObjective", quiz |-> q, id |-> id,
                loaded |-> quizzes[q], stale |-> FALSE])
          /\ last' = Response("readQuiz", id, HTTP_OK, <<>>)
          /\ UNCHANGED <<auth, pending, folders, materials, quizzes, plans, questions>>

\* POST /api/objectives from quiz.addLearningObjective on
saveCreateObjective(i) ==
  /\ i \in DOMAIN inflight
  /\ inflight[i].op = "createObjective"
  /\ LET r == inflight[i]
         mine == addLearningObjective(r.loaded, r.id)
     IN /\ quizzes' = [quizzes EXCEPT ![r.quiz] = saveQuiz(@, r.loaded, mine)]
        /\ inflight' = Outdated(i, r.quiz)
        /\ last' = Response("createObjective", r.id, HTTP_CREATED, <<>>)
        /\ UNCHANGED <<auth, pending, folders, materials, objectives, plans, questions, nextId>>

\* DELETE /api/objectives/:id up to Quiz.findById: the quiz was read.
readDeleteObjective(u, o) ==
  /\ Len(inflight) < MaxInflight
  /\ \A j \in DOMAIN inflight : inflight[j].id # o
  /\ IF ~(o \in DOMAIN objectives /\ objectives[o].createdBy = u)
     THEN Reject("deleteObjective", o, HTTP_NOT_FOUND)
     ELSE /\ inflight' = Append(inflight,
               [op |-> "deleteObjective", quiz |-> objectives[o].quiz, id |-> o,
                loaded |-> quizzes[objectives[o].quiz], stale |-> FALSE])
          /\ last' = Response("readQuiz", o, HTTP_OK, <<>>)
          /\ UNCHANGED <<auth, pending, db, nextId>>

\* DELETE /api/objectives/:id from quiz.removeLearningObjective on: the save
\* fails when the quiz was saved with a changed array since it was read, and
\* then nothing is deleted.
saveDeleteObjective(i) ==
  /\ i \in DOMAIN inflight
  /\ inflight[i].op = "deleteObjective"
  /\ LET r == inflight[i]
         mine == removeLearningObjective(r.loaded, r.id)
     IN IF r.stale /\ setsArray(r.loaded, mine)
        THEN /\ inflight' = SubSeq(inflight, 1, i - 1)
                              \o SubSeq(inflight, i + 1, Len(inflight))
             /\ last' = Response("deleteObjective", r.id, HTTP_INTERNAL_SERVER_ERROR, <<>>)
             /\ UNCHANGED <<auth, pending, db, nextId>>
        ELSE /\ quizzes' = [quizzes EXCEPT ![r.quiz] = saveQuiz(@, r.loaded, mine)]
             /\ questions' = RemoveAll(questions,
                  {x \in DOMAIN questions : questions[x].learningObjective = r.id})
             /\ objectives' = Remove(objectives, r.id)
             /\ inflight' = Outdated(i, r.quiz)
             /\ last' = Response("deleteObjective", r.id, HTTP_OK, <<>>)
             /\ UNCHANGED <<auth, pending, folders, materials, plans, nextId>>

\* One instructor's requests on the objectives of a quiz, overlapping.
NextOverlap ==
  \/ \E u \in Instructors, name \in FolderNames :
       nextId.folder <= MaxSingle /\ createFolder(u, name)
  \/ \E u \in Instructors, f \in Ids("folder"), n \in QuizNames :
       nextId.quiz <= MaxScenario /\ createQuiz(u, f, n)
  \/ \E u \in Instructors, q \in Ids("quiz") : readCreateObjective(u, q)
  \/ \E i \in 1..MaxInflight : saveCreateObjective(i)
  \/ \E u \in Instructors, o \in Ids("objective") : readDeleteObjective(u, o)
  \/ \E i \in 1..MaxInflight : saveDeleteObjective(i)

SpecOverlap == Init /\ [][NextOverlap]_vars

\* C29: once the overlapping requests on a quiz have all completed, none of
\* their updates is lost (the quiz lists exactly the stored objectives of the
\* quiz) and the objectivesSet flag is the one derived from that list.
C29_OverlapKeepsQuizDerived ==
  inflight = <<>> =>
    \A q \in DOMAIN quizzes :
      /\ quizzes[q].learningObjectives =
           {o \in DOMAIN objectives : objectives[o].quiz = q}
      /\ quizzes[q].progress.objectivesSet = (quizzes[q].learningObjectives # {})

(* ------------------------------------------------------ reorder, stepwise *)
\* GET /api/objectives/quiz/:quizId
getObjectives(u, q) ==
  IF ~(q \in DOMAIN quizzes /\ quizzes[q].createdBy = u)
  THEN Reject("getObjectives", q, HTTP_NOT_FOUND)
  ELSE /\ last' = Response("getObjectives", q, HTTP_OK, ObjectivesOf(q))
       /\ UNCHANGED <<auth, inflight, pending, db, nextId>>

\* PUT /api/objectives/reorder up to the call of reorderObjectives: the checks
\* have passed and one update per position is issued.
startReorderObjectives(u, q, objectiveIds) ==
  /\ Len(inflight) < MaxInflight
  /\ IF ~(q \in DOMAIN quizzes /\ quizzes[q].createdBy = u)
     THEN Reject("reorderObjectives", q, HTTP_NOT_FOUND)
     ELSE LET found == {o \in Range(objectiveIds) :
                          /\ o \in DOMAIN objectives
                          /\ objectives[o].quiz = q
                          /\ objectives[o].createdBy = u}
          IN IF Cardinality(found) # Len(objectiveIds)
             THEN Reject("reorderObjectives", q, HTTP_BAD_REQUEST)
             ELSE /\ Len(objectiveIds) > 0
                  /\ inflight' = Append(inflight,
                       [op |-> "reorderObjectives", quiz |-> q, ids |-> objectiveIds,
                        before |-> [k \in DOMAIN objectiveIds |->
                                      objectives[objectiveIds[k]].order],
                        todo |-> DOMAIN objectiveIds])
                  /\ last' = Response("startReorder", q, HTTP_OK, objectiveIds)
                  /\ UNCHANGED <<auth, pending, db, nextId>>

\* One findByIdAndUpdate(id, {order: index}) of a running reorder, in any
\* order of completion; the answer follows the last of them.
findByIdAndUpdateOrder(i, k) ==
  /\ i \in DOMAIN inflight
  /\ inflight[i].op = "reorderObjectives"
  /\ k \in inflight[i].todo
  /\ LET r == inflight[i]
         o == r.ids[k]
         rest == SubSeq(inflight, 1, i - 1) \o SubSeq(inflight, i + 1, Len(inflight))
     IN /\ objectives' = IF o \in DOMAIN objectives
                         THEN [objectives EXCEPT ![o].order = k - 1]
                         ELSE objectives
        /\ IF r.todo = {k}
           THEN /\ inflight' = rest
                /\ last' = Response("reorderObjectives", r.quiz, HTTP_OK, r.ids)
           ELSE /\ inflight' = [inflight EXCEPT ![i].todo = @ \ {k}]
                /\ last' = Response("findByIdAndUpdate", o, HTTP_OK, <<>>)
        /\ UNCHANGED <<auth, pending, folders, materials, quizzes, plans, questions, nextId>>

\* The objectives of a quiz, reordered update by update, one reorder at a
\* time, while they are read.
NextReorder ==
  \/ \E u \in Instructors, name \in FolderNames :
       nextId.folder <= MaxSingle /\ createFolder(u, name)
  \/ \E u \in Instructors, f \in Ids("folder"), n \in QuizNames :
       nextId.quiz <= MaxScenario /\ createQuiz(u, f, n)
  \/ \E u \in Instructors, q \in Ids("quiz"), order \in OrderInputs :
       Manual("objective") /\ createObjective(u, q, order)
  \/ \E u \in Instructors, q \in Ids("quiz"), os \in IdLists("objective") :
       Len(inflight) < MaxScenario /\ startReorderObjectives(u, q, os)
  \/ \E i \in 1..MaxInflight, k \in 1..MaxObjectives : findByIdAndUpdateOrder(i, k)
  \/ \E u \in Instructors, q \in Ids("quiz") : getObjectives(u, q)

SpecReorder == Init /\ [][NextReorder]_vars

HandlerKinds == {"resolves", "rejects", "returns", "throws"}
Requests == {"r1", "r2"}
Errors == {"e1", "e2"}

\* asyncHandler(fn)(req, res, next) up to the end of the call: fn(req, res,
\* next) is evaluated first, as the argument of Promise.resolve. A throw of a
\* plain function leaves the wrapper there, before any promise exists; in
\* the other cases the promise is pending with catch(next) attached.
callWrapped(req, kind, error) ==
  /\ Len(inflight) < MaxInflight
  /\ LET call == [op |-> "asyncHandler", id |-> req, res |-> Undefined, ids |-> <<>>,
                  kind |-> kind, error |-> error,
                  passed |-> <<req, "res", "next">>, next |-> <<>>]
     IN IF kind = "throws"
        THEN /\ last' = [call EXCEPT !.res = HTTP_INTERNAL_SERVER_ERROR]
             /\ UNCHANGED inflight
        ELSE /\ inflight' = Append(inflight, call)
             /\ last' = Response("callWrapped", Undefined, HTTP_OK, <<>>)
  /\ UNCHANGED <<auth, pending, db, nextId>>

\* The promise of a call settles: catch(next) runs when it is rejected.
settleWrapped(i) ==
  /\ i \in DOMAIN inflight
  /\ inflight[i].op = "asyncHandler"
  /\ last' = [inflight[i] EXCEPT
                !.res = HTTP_OK,
                !.next = IF inflight[i].kind = "rejects"
                         THEN Append(@, inflight[i].error) ELSE @]
  /\ inflight' = SubSeq(inflight, 1, i - 1) \o SubSeq(inflight, i + 1, Len(inflight))
  /\ UNCHANGED <<auth, pending, db, nextId>>

NextHandler ==
  \/ \E req \in Requests, kind \in HandlerKinds, error \in Errors :
       callWrapped(req, kind, error)
  \/ \E i \in 1..MaxInflight : settleWrapped(i)

SpecHandler == Init /\ [][NextHandler]_vars

\* C31: when a call of a wrapped function is over, next was called exactly
\* once, with the error, if the function rejected or threw, and not at all
\* if it completed; the function was called with (req, res, next).
C31_ErrorForwardedOnce ==
  last.op = "asyncHandler" =>
    /\ last.passed = <<last.id, "res", "next">>
    /\ last.next = IF last.kind \in {"rejects", "throws"}
                   THEN <<last.error>> ELSE <<>>

(* ---------------------------------------------------------- distribution *)
\* Breakdowns of a request body: one objective, up to two types, counts that
\* add up to forty or less.
DistributionCountInputs == {JsNum(1), JsNum(17), JsNum(23)}
DistributionBreakdownInputs ==
  {<<[learningObjective |-> lo, questionTypes |-> qts]>> :
     lo \in DOMAIN objectives,
     qts \in SeqsUpTo([type : TypeInputs, count : DistributionCountInputs], 2)}

\* One instructor's plans and the revisions of their breakdown.
NextDistribution ==
  \/ \E u \in Instructors, name \in FolderNames :
       nextId.folder <= MaxSingle /\ createFolder(u, name)
  \/ \E u \in Instructors, f \in Ids("folder"), n \in QuizNames :
       nextId.quiz <= MaxScenario /\ createQuiz(u, f, n)
  \/ \E u \in Instructors, q \in Ids("quiz") :
       Manual("objective") /\ createObjective(u, q, Undefined)
  \/ \E u \in Instructors, q \in Ids("quiz"), a \in ApproachInputs, n \in ScenarioPerLOInputs :
       nextId.plan <= MaxScenario /\ generatePlan(u, q, a, n)
  \/ \E u \in Instructors, p \in Ids("plan"), breakdown \in DistributionBreakdownInputs :
       Unrevised(p) /\ updatePlan(u, p, TRUE, breakdown)

SpecDistribution == Init /\ [][NextDistribution]_vars

\* round(100 * count / total), halves rounding up.
ExactPercent(count, total) == (200 * count + total) \div (2 * total)

\* C32: the distribution of every plan has exactly one entry per question
\* type of its breakdown, with the sum of that type's counts over all
\* objectives and with round(100 * totalCount / totalQuestions) as percentage,
\* an integer from 0 to 100.
C32_DistributionAggregatesBreakdown ==
  \A p \in DOMAIN plans :
    LET plan == plans[p]
        flat == FlatTypes(plan.breakdown)
        types == {flat[i].type : i \in DOMAIN flat}
    IN /\ {plan.distribution[i].type : i \in DOMAIN plan.distribution} = types
       /\ Len(plan.distribution) = Cardinality(types)
       /\ \A i \in DOMAIN plan.distribution :
            LET d == plan.distribution[i] IN
            /\ d.totalCount = SumCounts(SelectSeq(flat, LAMBDA qt : qt.type = d.type))
            /\ plan.totalQuestions > 0
            /\ d.percentage = ExactPercent(d.totalCount, plan.totalQuestions)
            /\ d.percentage \in 0..100

(* ------------------------------------------------------------- revisions *)
RevisionBreakdownInputs ==
  {<<[learningObjective |-> lo,
      questionTypes |-> <<[type |-> "multiple-choice", count |-> JsNum(n)]>>]>> :
     lo \in DOMAIN objectives, n \in {1, 2}}

\* One instructor's plans, each revised up to MaxModifications times.
NextRevision ==
  \/ \E u \in Instructors, name \in FolderNames :
       nextId.folder <= MaxSingle /\ createFolder(u, name)
  \/ \E u \in Instructors, f \in Ids("folder"), n \in QuizNames :
       nextId.quiz <= MaxScenario /\ createQuiz(u, f, n)
  \/ \E u \in Instructors, q \in Ids("quiz") :
       Manual("objective") /\ createObjective(u, q, Undefined)
  \/ \E u \in Instructors, q \in Ids("quiz"), a \in ApproachInputs :
       nextId.plan <= MaxScenario /\ generatePlan(u, q, a, 1)
  \/ \E u \in Instructors, p \in Ids("plan"), breakdown \in RevisionBreakdownInputs :
       updatePlan(u, p, TRUE, breakdown)

SpecRevision == Init /\ [][NextRevision]_vars

\* C33: an update of a plan's breakdown stores the breakdown of the request
\* in place of the old one, appends one modification record with the editor
\* and the breakdown as it was before, leaves the earlier records as they
\* were and sets the status to modified.
C33_UpdateBreakdownRecordsRevision ==
  [][(last'.op = "updatePlan" /\ last'.res = HTTP_OK /\ plans' # plans) =>
       LET p == last'.id
           old == plans[p]
           new == plans'[p]
       IN /\ new.breakdown = castBreakdown(last'.breakdown)
          /\ Len(new.modifications) = Len(old.modifications) + 1
          /\ SubSeq(new.modifications, 1, Len(old.modifications)) = old.modifications
          /\ new.modifications[Len(new.modifications)].modifiedBy = last'.by
          /\ new.modifications[Len(new.modifications)].previousBreakdown = old.breakdown
          /\ new.status = "modified"]_vars

\* A plan was revised twice: the second record holds the breakdown of the
\* first revision, the first one the generated breakdown.
C33_RevisedTwice ==
  /\ last.op = "updatePlan" /\ last.res = HTTP_OK
  /\ Len(plans[last.id].modifications) = 2
  /\ plans[last.id].modifications[1].previousBreakdown
       # plans[last.id].modifications[2].previousBreakdown
  /\ plans[last.id].modifications[2].previousBreakdown # plans[last.id].breakdown

(* ----------------------------------------------- the steps of deleteQuiz *)
\* DELETE /api/quizzes/:id up to the lookup of the quiz.
startDeleteQuiz(u, q) ==
  /\ Len(inflight) < MaxInflight
  /\ IF ~(q \in DOMAIN quizzes /\ quizzes[q].createdBy = u)
     THEN Reject("deleteQuiz", q, HTTP_NOT_FOUND)
     ELSE /\ inflight' = Append(inflight,
               [op |-> "deleteQuiz", quiz |-> q, folder |-> quizzes[q].folder,
                pc |-> "removeQuiz", todo |-> {}])
          /\ last' = Response("findOne", q, HTTP_OK, <<>>)
          /\ UNCHANGED <<auth, pending, db, nextId>>

\* Folder.findById(quiz.folder) and folder.removeQuiz(quizId); the three
\* deleteMany calls are issued next.
removeQuizFromFolder(i) ==
  /\ i \in DOMAIN inflight
  /\ inflight[i].op = "deleteQuiz"
  /\ inflight[i].pc = "removeQuiz"
  /\ LET r == inflight[i] IN
     /\ folders' = IF r.folder \in DOMAIN folders
                   THEN [folders EXCEPT ![r.folder] = folderRemoveQuiz(@, r.quiz)]
                   ELSE folders
     /\ inflight' = [inflight EXCEPT ![i].pc = "deleteMany",
                                     ![i].todo = {"objective", "question", "plan"}]
     /\ last' = Response("removeQuiz", r.quiz, HTTP_OK, <<>>)
     /\ UNCHANGED <<auth, pending, materials, quizzes, objectives, plans, questions, nextId>>

\* One deleteMany({quiz: quizId}) of the Promise.all, in any order of completion.
deleteMany(i, kind) ==
  /\ i \in DOMAIN inflight
  /\ inflight[i].op = "deleteQuiz"
  /\ inflight[i].pc = "deleteMany"
  /\ kind \in inflight[i].todo
  /\ LET r == inflight[i] IN
     /\ objectives' = IF kind = "objective"
                      THEN RemoveAll(objectives,
                             {o \in DOMAIN objectives : objectives[o].quiz = r.quiz})
                      ELSE objectives
     /\ questions' = IF kind = "question"
                     THEN RemoveAll(questions,
                            {x \in DOMAIN questions : questions[x].quiz = r.quiz})
                     ELSE questions
     /\ plans' = IF kind = "plan"
                 THEN RemoveAll(plans, {p \in DOMAIN plans : plans[p].quiz = r.quiz})
                 ELSE plans
     /\ inflight' = [inflight EXCEPT
                       ![i].todo = @ \ {kind},
                       ![i].pc = IF r.todo = {kind} THEN "findByIdAndDelete" ELSE @]
     /\ last' = Response("deleteMany", r.quiz, HTTP_OK, <<>>)
     /\ UNCHANGED <<auth, pending, folders, materials, quizzes, nextId>>

\* Quiz.findByIdAndDelete(quizId) and the answer.
findByIdAndDelete(i) ==
  /\ i \in DOMAIN inflight
  /\ inflight[i].op = "deleteQuiz"
  /\ inflight[i].pc = "findByIdAndDelete"
  /\ LET r == inflight[i] IN
     /\ quizzes' = IF r.quiz \in DOMAIN quizzes THEN Remove(quizzes, r.quiz) ELSE quizzes
     /\ inflight' = SubSeq(inflight, 1, i - 1) \o SubSeq(inflight, i + 1, Len(inflight))
     /\ last' = Response("deleteQuiz", r.quiz, HTTP_OK, <<>>)
     /\ UNCHANGED <<auth, pending, folders, materials, objectives, plans, questions, nextId>>

\* One instructor's quiz with objectives, a plan and questions, deleted step
\* by step.
NextDeleteQuiz ==
  \/ \E u \in Instructors, name \in FolderNames :
       nextId.folder <= MaxSingle /\ createFolder(u, name)
  \/ \E u \in Instructors, f \in Ids("folder"), n \in QuizNames :
       nextId.quiz <= MaxScenario /\ createQuiz(u, f, n)
  \/ \E u \in Instructors, q \in Ids("quiz") :
       Manual("objective") /\ createObjective(u, q, Undefined)
  \/ \E u \in Instructors, q \in Ids("quiz") :
       nextId.plan <= MaxScenario /\ generatePlan(u, q, "support", 1)
  \/ \E u \in Instructors, q \in Ids("quiz"), lo \in Ids("objective") :
       nextId.question <= MaxScenario /\ createQuestion(u, q, lo, "multiple-choice")
  \/ \E u \in Instructors, q \in Ids("quiz") :
       Len(inflight) < MaxScenario /\ startDeleteQuiz(u, q)
  \/ \E i \in 1..MaxInflight : removeQuizFromFolder(i)
  \/ \E i \in 1..MaxInflight, kind \in {"objective", "question", "plan"} : deleteMany(i, kind)
  \/ \E i \in 1..MaxInflight : findByIdAndDelete(i)

SpecDeleteQuiz == Init /\ [][NextDeleteQuiz]_vars

\* The quiz has objectives, questions or plans.
HasChildren(q) ==
  \/ \E o \in DOMAIN objectives : objectives[o].quiz = q
  \/ \E x \in DOMAIN questions : questions[x].quiz = q
  \/ \E p \in DOMAIN plans : plans[p].quiz = q

\* The quiz is stored and listed by a folder.
Attached(q) ==
  /\ q \in DOMAIN quizzes
  /\ \E f \in DOMAIN folders : q \in folders[f].quizzes

\* C34: the deletion of a quiz removes the objectives, questions and plans
\* before it takes the quiz out of its folder and deletes it: while a quiz
\* has children it is stored and listed by its folder.
C34_ChildrenDeletedFirst ==
  \A q \in 1..MaxQuizzes : HasChildren(q) => Attached(q)

(* ----------------------------------------------------- the active plan *)
\* C35: the active plan of a quiz is a stored plan of that quiz whose status
\* is approved or used.
C35_ActivePlanApprovedOrUsed ==
  \A q \in DOMAIN quizzes :
    quizzes[q].activePlan \notin {Undefined, Null} =>
      /\ quizzes[q].activePlan \in DOMAIN plans
      /\ plans[quizzes[q].activePlan].quiz = q
      /\ plans[quizzes[q].activePlan].status \in {"approved", "used"}

(* ------------------------------------------- generation from a plan *)
\* The sum of the counts of a stored breakdown.
BreakdownTotal(breakdown) == SumCounts(FlatTypes(breakdown))

\* C36: questions are generated only from a plan of the quiz that is approved
\* when the request arrives; a successful generation leaves the plan used and
\* creates as many questions as the counts of the breakdown add up to; a
\* request naming a plan that is not approved (used, draft or modified) is
\* answered not-found and creates nothing.
C36_GenerationNeedsApprovedPlan ==
  /\ [][(last'.op = "generateQuestions" /\ last'.res # HTTP_NOT_FOUND) =>
          LET p == last'.id
              created == DOMAIN questions' \ DOMAIN questions
          IN /\ p \in DOMAIN plans
             /\ plans[p].status = "approved"
             /\ \A x \in created : /\ questions'[x].quiz = plans[p].quiz
                                   /\ questions'[x].generationPlan = p
             /\ last'.res = HTTP_CREATED =>
                  /\ plans'[p].status = "used"
                  /\ Cardinality(created) = BreakdownTotal(plans[p].breakdown)
                  /\ Len(last'.ids) = BreakdownTotal(plans[p].breakdown)]_vars
  /\ [][(last'.op = "generateQuestions" /\ last'.res = HTTP_NOT_FOUND) =>
          questions' = questions]_vars
  /\ [](\A u \in Instructors, q \in DOMAIN quizzes, p \in DOMAIN plans :
          plans[p].status # "approved" =>
            /\ ENABLED (/\ generateQuestionsFromPlan(u, q, p)
                        /\ last'.res = HTTP_NOT_FOUND /\ db' = db)
            /\ ~ENABLED (/\ generateQuestionsFromPlan(u, q, p)
                         /\ (last'.res # HTTP_NOT_FOUND \/ db' # db)))

\* Two or more questions were generated from a plan, which is now used.
C36_GeneratedAndUsed ==
  /\ last.op = "generateQuestions" /\ last.res = HTTP_CREATED
  /\ Len(last.ids) >= 2
  /\ plans[last.id].status = "used"

(* ------------------------------------------------ processing of materials *)
QdrantIds == {"d1"}

\* materialSchema.methods.setQdrantId
setQdrantId(m, qdrantDocumentId) ==
  /\ m \in DOMAIN materials
  /\ materials' = [materials EXCEPT ![m] =
       [@ EXCEPT !.qdrantDocumentId = qdrantDocumentId,
                 !.processingStatus = "completed"]]
  /\ last' = Response("setQdrantId", m, HTTP_OK, <<>>)
  /\ UNCHANGED <<auth, inflight, pending, folders, quizzes, objectives, plans, questions, nextId>>

\* The methods that set the processing status of a material, applied in any
\* order, and the reprocess request.
NextProcessing ==
  \/ \E u \in Instructors, name \in FolderNames :
       nextId.folder <= MaxSingle /\ createFolder(u, name)
  \/ \E u \in Instructors, f \in Ids("folder"), url \in Urls : createUrlMaterial(u, f, url)
  \/ \E u \in Instructors, f \in Ids("folder"), c \in Contents : createTextMaterial(u, f, c)
  \/ \E u \in Instructors, m \in Ids("material") : reprocessMaterial(u, m)
  \/ \E m \in DOMAIN materials : markAsProcessing(m)
  \/ \E m \in DOMAIN materials : markAsCompleted(m)
  \/ \E m \in DOMAIN materials, error \in ErrorInputs : markAsFailed(m, error)
  \/ \E m \in DOMAIN materials, d \in QdrantIds : setQdrantId(m, d)

SpecProcessing == Init /\ [][NextProcessing]_vars

\* C39: a material has an error detail exactly while its processing status
\* is failed.
C39_ErrorDetailIffFailed ==
  \A m \in DOMAIN materials :
    (materials[m].processingStatus = "failed") <=> (materials[m].processingError # NoError)

(* ------------------------------------------ the objectives of a breakdown *)
\* C37: every objective a plan's breakdown names is stored and belongs to
\* the quiz of the plan.
C37_BreakdownObjectivesOfQuiz ==
  \A p \in DOMAIN plans :
    \A i \in DOMAIN plans[p].breakdown :
      /\ plans[p].breakdown[i].learningObjective \in DOMAIN objectives
      /\ objectives[plans[p].breakdown[i].learningObjective].quiz = plans[p].quiz

(* ------------------------------------- approval and deletion of one plan *)
\* The requests in flight without the i-th.
Settled(i) == SubSeq(inflight, 1, i - 1) \o SubSeq(inflight, i + 1, Len(inflight))

\* POST /api/plans/:id/approve up to the lookup of the plan.
startApprovePlan(u, p) ==
  /\ Len(inflight) < MaxInflight
  /\ IF ~(p \in DOMAIN plans /\ plans[p].createdBy = u)
     THEN Reject("approvePlan", p, HTTP_NOT_FOUND)
     ELSE /\ inflight' = Append(inflight,
               [op |-> "approvePlan", plan |-> p, quiz |-> plans[p].quiz,
                pc |-> "approve", found |-> plans[p].status, loaded |-> <<>>])
          /\ last' = Response("findOne", p, HTTP_OK, <<>>)
          /\ UNCHANGED <<auth, pending, db, nextId>>

\* plan.approve(): the status is written to the stored plan. When the plan
\* has been deleted since the lookup the save finds nothing to update, and
\* either fails (the request ends with an error) or passes.
approveSave(i, fails) ==
  /\ i \in DOMAIN inflight
  /\ inflight[i].op = "approvePlan"
  /\ inflight[i].pc = "approve"
  /\ LET r == inflight[i] IN
     IF r.plan \in DOMAIN plans \/ r.found = "approved" \/ ~fails
     THEN /\ plans' = IF r.plan \in DOMAIN plans /\ r.found # "approved"
                      THEN [plans EXCEPT ![r.plan] = approve(@)]
                      ELSE plans
          /\ inflight' = [inflight EXCEPT ![i].pc = "findQuiz"]
          /\ last' = Response("approve", r.plan, HTTP_OK, <<>>)
          /\ UNCHANGED <<auth, pending, folders, materials, quizzes, objectives, questions, nextId>>
     ELSE /\ inflight' = Settled(i)
          /\ last' = Response("approvePlan", r.plan, HTTP_INTERNAL_SERVER_ERROR, <<>>)
          /\ UNCHANGED <<auth, pending, db, nextId>>

\* Quiz.findById(plan.quiz) of the approval; without a quiz the answer follows.
findQuizOfApproved(i) ==
  /\ i \in DOMAIN inflight
  /\ inflight[i].op = "approvePlan"
  /\ inflight[i].pc = "findQuiz"
  /\ LET r == inflight[i] IN
     /\ IF r.quiz \in DOMAIN quizzes
        THEN /\ inflight' = [inflight EXCEPT ![i].pc = "setActivePlan",
                                             ![i].loaded = quizzes[r.quiz]]
             /\ last' = Response("findById", r.quiz, HTTP_OK, <<>>)
        ELSE /\ inflight' = Settled(i)
             /\ last' = Response("approvePlan", r.plan, HTTP_OK, <<>>)
     /\ UNCHANGED <<auth, pending, db, nextId>>

\* quiz.setActivePlan(planId) of the approval and the answer.
saveActivePlan(i) ==
  /\ i \in DOMAIN inflight
  /\ inflight[i].op = "approvePlan"
  /\ inflight[i].pc = "setActivePlan"
  /\ LET r == inflight[i]
         mine == setActivePlan(r.loaded, r.plan)
     IN /\ quizzes' = IF r.quiz \in DOMAIN quizzes
                      THEN [quizzes EXCEPT ![r.quiz] = saveQuiz(@, r.loaded, mine)]
                      ELSE quizzes
        /\ inflight' = Settled(i)
        /\ last' = Response("approvePlan", r.plan, HTTP_OK, <<>>)
        /\ UNCHANGED <<auth, pending, folders, materials, objectives, plans, questions, nextId>>

\* DELETE /api/plans/:id up to the lookup of the plan.
startDeletePlan(u, p) ==
  /\ Len(inflight) < MaxInflight
  /\ IF ~(p \in DOMAIN plans /\ plans[p].createdBy = u)
     THEN Reject("deletePlan", p, HTTP_NOT_FOUND)
     ELSE /\ inflight' = Append(inflight,
               [op |-> "deletePlan", plan |-> p, quiz |-> plans[p].quiz,
                pc |-> "findQuiz"])
          /\ last' = Response("findOne", p, HTTP_OK, <<>>)
          /\ UNCHANGED <<auth, pending, db, nextId>>

\* Quiz.findById(plan.quiz) of the deletion and the test for the active plan.
checkActivePlan(i) ==
  /\ i \in DOMAIN inflight
  /\ inflight[i].op = "deletePlan"
  /\ inflight[i].pc = "findQuiz"
  /\ LET r == inflight[i] IN
     /\ IF /\ r.quiz \in DOMAIN quizzes
           /\ quizzes[r.quiz].activePlan \notin {Undefined, Null}
           /\ quizzes[r.quiz].activePlan = r.plan
        THEN /\ inflight' = Settled(i)
             /\ last' = Response("deletePlan", r.plan, HTTP_BAD_REQUEST, <<>>)
        ELSE /\ inflight' = [inflight EXCEPT ![i].pc = "findByIdAndDelete"]
             /\ last' = Response("findById", r.quiz, HTTP_OK, <<>>)
     /\ UNCHANGED <<auth, pending, db, nextId>>

\* GenerationPlan.findByIdAndDelete(planId) and the answer.
findByIdAndDeletePlan(i) ==
  /\ i \in DOMAIN inflight
  /\ inflight[i].op = "deletePlan"
  /\ inflight[i].pc = "findByIdAndDelete"
  /\ LET r == inflight[i] IN
     /\ plans' = IF r.plan \in DOMAIN plans THEN Remove(plans, r.plan) ELSE plans
     /\ inflight' = Settled(i)
     /\ last' = Response("deletePlan", r.plan, HTTP_OK, <<>>)
     /\ UNCHANGED <<auth, pending, folders, materials, quizzes, objectives, questions, nextId>>

\* No request of the kind is in flight.
NoneInFlight(op) == \A j \in DOMAIN inflight : inflight[j].op # op

\* One instructor's plans; an approval and a deletion may overlap.
NextApproveDelete ==
  \/ \E u \in Instructors, name \in FolderNames :
       nextId.folder <= MaxSingle /\ createFolder(u, name)
  \/ \E u \in Instructors, f \in Ids("folder"), n \in QuizNames :
       nextId.quiz <= MaxScenario /\ createQuiz(u, f, n)
  \/ \E u \in Instructors, q \in Ids("quiz") :
       Manual("objective") /\ createObjective(u, q, Undefined)
  \/ \E u \in Instructors, q \in Ids("quiz") :
       nextId.plan <= MaxManual /\ generatePlan(u, q, "support", 1)
  \/ \E u \in Instructors, p \in Ids("plan") :
       NoneInFlight("approvePlan") /\ startApprovePlan(u, p)
  \/ \E i \in 1..MaxInflight, fails \in BOOLEAN : approveSave(i, fails)
  \/ \E i \in 1..MaxInflight : findQuizOfApproved(i)
  \/ \E i \in 1..MaxInflight : saveActivePlan(i)
  \/ \E u \in Instructors, p \in Ids("plan") :
       NoneInFlight("deletePlan") /\ startDeletePlan(u, p)
  \/ \E i \in 1..MaxInflight : checkActivePlan(i)
  \/ \E i \in 1..MaxInflight : findByIdAndDeletePlan(i)

SpecApproveDelete == Init /\ [][NextApproveDelete]_vars

\* C38: when the approval and the deletion of a plan have both ended, the
\* active plan of a quiz is a stored plan.
C38_ActivePlanSurvivesOverlap ==
  inflight = <<>> =>
    \A q \in DOMAIN quizzes :
      quizzes[q].activePlan \notin {Undefined, Null} =>
        quizzes[q].activePlan \in DOMAIN plans

(* -------------------------------------------------- login, logout, tokens *)
MaxTokenVersion == 2
CwlIds == {"cwl1", "cwl2"}
Passwords == {"pw1", "pw2"}
TokenKinds == {"access", "refresh"}

\* bcrypt.hash and bcrypt.compare: a hash matches the password it was made of.
hashPassword(password) == <<"bcrypt", password>>
comparePassword(password, hashedPassword) == hashedPassword = hashPassword(password)

\* jwt.sign of the payload {userId, cwlId, tokenVersion}
generateToken(id, user, kind) ==
  [userId |-> id, cwlId |-> user.cwlId, tokenVersion |-> user.tokenVersion,
   kind |-> kind, revoked |-> FALSE]

\* AuthService.generateTokens: an access and a refresh token
generateTokens(id, user) == {generateToken(id, user, kind) : kind \in TokenKinds}

\* AuthService.validateSession
validateSession(userId, tokenVersion) ==
  /\ userId \in sessions
  /\ userId \in DOMAIN users
  /\ users[userId].tokenVersion = tokenVersion

\* Faulty variant of incrementTokenVersion: the version stays as it is.
keepTokenVersion(user) == user

\* userSchema.methods.incrementTokenVersion
incrementTokenVersion(user) == [user EXCEPT !.tokenVersion = @ + 1]

\* The response to a request that presented a token.
TokenResponse(op, token, res) ==
  [op |-> op, id |-> token.userId, res |-> res, ids |-> <<>>, token |-> token]

\* POST /api/auth/register
register(cwlId, password) ==
  IF \E id \in DOMAIN users : users[id].cwlId = cwlId
  THEN /\ last' = Response("register", Undefined, HTTP_BAD_REQUEST, <<>>)
       /\ UNCHANGED <<auth, inflight, pending, db, nextId>>
  ELSE LET id == Len(users) + 1
           user == [cwlId |-> cwlId, password |-> hashPassword(password),
                    tokenVersion |-> 0]
       IN /\ users' = Put(users, id, user)
          /\ tokens' = tokens \cup generateTokens(id, user)
          /\ sessions' = sessions \cup {id}
          /\ last' = Response("register", id, HTTP_CREATED, <<>>)
          /\ UNCHANGED <<inflight, pending, db, nextId>>

\* POST /api/auth/login
login(cwlId, password) ==
  IF ~(\E id \in DOMAIN users :
         users[id].cwlId = cwlId /\ comparePassword(password, users[id].password))
  THEN /\ last' = Response("login", Undefined, HTTP_UNAUTHORIZED, <<>>)
       /\ UNCHANGED <<auth, inflight, pending, db, nextId>>
  ELSE LET id == CHOOSE id \in DOMAIN users : users[id].cwlId = cwlId IN
       /\ tokens' = tokens \cup generateTokens(id, users[id])
       /\ sessions' = sessions \cup {id}
       /\ last' = Response("login", id, HTTP_OK, <<>>)
       /\ UNCHANGED <<users, inflight, pending, db, nextId>>

\* authenticateToken on a route that does nothing else (POST /api/auth/validate)
authenticateToken(token) ==
  /\ last' = TokenResponse("authenticateToken", token,
               IF validateSession(token.userId, token.tokenVersion)
               THEN HTTP_OK ELSE HTTP_UNAUTHORIZED)
  /\ UNCHANGED <<auth, inflight, pending, db, nextId>>

\* POST /api/auth/refresh
refreshToken(token) ==
  IF ~(/\ token.userId \in DOMAIN users
       /\ users[token.userId].tokenVersion = token.tokenVersion
       /\ token.userId \in sessions)
  THEN /\ last' = TokenResponse("refreshToken", token, HTTP_UNAUTHORIZED)
       /\ UNCHANGED <<auth, inflight, pending, db, nextId>>
  ELSE /\ tokens' = tokens \cup
                      {generateToken(token.userId, users[token.userId], "access")}
       /\ last' = TokenResponse("refreshToken", token, HTTP_OK)
       /\ UNCHANGED <<users, sessions, inflight, pending, db, nextId>>

\* POST /api/auth/logout: authenticateToken, then AuthService.logout
logout(token) ==
  IF ~validateSession(token.userId, token.tokenVersion)
  THEN /\ last' = TokenResponse("logout", token, HTTP_UNAUTHORIZED)
       /\ UNCHANGED <<auth, inflight, pending, db, nextId>>
  ELSE /\ sessions' = sessions \ {token.userId}
       /\ users' = [users EXCEPT ![token.userId] = incrementTokenVersion(@)]
       /\ tokens' = {IF t.userId = token.userId THEN [t EXCEPT !.revoked = TRUE] ELSE t :
                       t \in tokens}
       /\ last' = TokenResponse("logout", token, HTTP_OK)
       /\ UNCHANGED <<inflight, pending, db, nextId>>

\* Users register, log in, present their tokens and log out, one request
\* after the other.
NextAuth ==
  \/ \E cwlId \in CwlIds, password \in Passwords : register(cwlId, password)
  \/ \E cwlId \in CwlIds, password \in Passwords : login(cwlId, password)
  \/ \E token \in tokens : authenticateToken(token)
  \/ \E token \in tokens : refreshToken(token)
  \/ \E token \in tokens :
       (token.userId \in DOMAIN users
          => users[token.userId].tokenVersion < MaxTokenVersion)
       /\ logout(token)

SpecAuth == Init /\ [][NextAuth]_vars

\* C40: a token issued to a user before a logout of that user completed is
\* refused by authenticateToken and by refreshToken from then on, also when
\* the user has logged in again; a token issued since is accepted.
C40_LogoutRevokesTokens ==
  /\ [](\A t \in tokens : validateSession(t.userId, t.tokenVersion) <=> ~t.revoked)
  /\ [][last'.op \in {"authenticateToken", "refreshToken"} =>
          (last'.res = HTTP_OK <=> ~last'.token.revoked)]_vars

\* A token from before the logout was refused while the user is logged in
\* again and holds a token of the new login.
C40_OldTokenRefusedAfterRelogin ==
  /\ last.op \in {"authenticateToken", "refreshToken"}
  /\ last.res = HTTP_UNAUTHORIZED
  /\ last.token.revoked
  /\ last.token.userId \in sessions
  /\ \E t \in tokens : t.userId = last.token.userId /\ ~t.revoked
====
